---- MODULE Spec2Model ----
(***************************************************************************)
(* RandQuik (legacy ChaCha branch): the streaming context of chacha20.h    *)
(* (cha_init, cha_seek_blocks, cha_generate_batch, cha_update), the batch  *)
(* block functions it dispatches to, and the producer/writer pipeline of   *)
(* the command line tool (producer_thread, fast, signal_handler, main).    *)
(*                                                                         *)
(* Data representation.                                                    *)
(*  - A uint32_t is held as the Int with the same 32-bit two's complement  *)
(*    pattern (0x80000000 is MinW, 0xFFFFFFFF is -1), so that additions    *)
(*    wrap modulo 2^32 (AddW) and the signed and the unsigned comparisons  *)
(*    of the SIMD code are both available (>, ULt).                        *)
(*  - With the constants, the key, the nonce and the rounds fixed by       *)
(*    cha_init, a 64-byte ChaCha block is a function of the two counter    *)
(*    words.  Byte j of the block computed from counter words (c12, c13)   *)
(*    is named by (c13, c12, j).  A byte string is held as its runs: the   *)
(*    piece <<c13, c12, from, n>> is the n bytes from..from+n-1 of that    *)
(*    block, and <<0, 0, -1, n>> is n zero bytes.  Cat keeps the runs      *)
(*    maximal, so two byte strings are equal exactly when their            *)
(*    representations are.                                                 *)
(***************************************************************************)
EXTENDS Integers, Sequences, FiniteSets, TLC

----------------------------------------------------------------------------
(* 32-bit words                                                            *)

MaxW == 2147483647
MinW == (-MaxW) - 1

\* a + b modulo 2^32 on two's complement patterns
AddW(a, b) ==
    IF a >= 0 /\ b >= 0
    THEN IF a > MaxW - b THEN (a + MinW) + (b + MinW) ELSE a + b
    ELSE IF a < 0 /\ b < 0
         THEN IF a >= MinW - b THEN a + b ELSE (a - MinW) + (b - MinW)
         ELSE a + b

\* unsigned a < b
ULt(a, b) == IF (a < 0) = (b < 0) THEN a < b ELSE b < 0

Bit(c) == IF c THEN 1 ELSE 0

\* the 64-bit little-endian counter held in words <<lo, hi>>, plus a signed delta
Add64(lo, hi, delta) ==
    LET dlo == delta
        dhi == IF delta < 0 THEN -1 ELSE 0
        nlo == AddW(lo, dlo)
    IN  <<nlo, AddW(AddW(hi, dhi), Bit(ULt(nlo, dlo)))>>

----------------------------------------------------------------------------
(* Byte strings as runs                                                    *)

Size(s) == LET RECURSIVE Sum(_)
               Sum(k) == IF k = 0 THEN 0 ELSE s[k][4] + Sum(k - 1)
           IN  Sum(Len(s))

Joins(p, q) ==
    /\ p[1] = q[1] /\ p[2] = q[2]
    /\ \/ p[3] = -1 /\ q[3] = -1
       \/ p[3] >= 0 /\ q[3] = p[3] + p[4]

Cat(a, b) ==
    IF a = <<>> THEN b
    ELSE IF b = <<>> THEN a
    ELSE LET p == a[Len(a)]
             q == b[1]
         IN  IF Joins(p, q)
             THEN SubSeq(a, 1, Len(a) - 1)
                    \o << <<p[1], p[2], p[3], p[4] + q[4]>> >>
                    \o SubSeq(b, 2, Len(b))
             ELSE a \o b

RECURSIVE Drop(_, _)
Drop(s, n) ==
    IF n = 0 \/ s = <<>> THEN s
    ELSE LET p == s[1]
         IN  IF p[4] <= n THEN Drop(Tail(s), n - p[4])
             ELSE << <<p[1], p[2], IF p[3] = -1 THEN -1 ELSE p[3] + n, p[4] - n>> >>
                    \o Tail(s)

RECURSIVE Take(_, _)
Take(s, n) ==
    IF n = 0 \/ s = <<>> THEN <<>>
    ELSE LET p == s[1]
         IN  IF p[4] <= n THEN <<p>> \o Take(Tail(s), n - p[4])
             ELSE << <<p[1], p[2], p[3], n>> >>

\* bytes off .. off+n-1 of s
Slice(s, off, n) == Take(Drop(s, off), n)

Zeros(n) == IF n = 0 THEN <<>> ELSE << <<0, 0, -1, n>> >>

----------------------------------------------------------------------------
(* ChaCha block functions                                                  *)

CHA_BLOCK_SIZE == 64
BATCH_BLOCKS == 8
BATCH_SIZE == BATCH_BLOCKS * CHA_BLOCK_SIZE

\* the 64 output bytes of the block function run on a state whose counter
\* words are state[12] = c12 and state[13] = c13
BlockBytes(c12, c13) == << <<c13, c12, 0, CHA_BLOCK_SIZE>> >>

\* scalar block function: one block, then ++*(uint64_t*)(state + 12)
_cha_block(state, rounds) ==
    LET c == Add64(state[12], state[13], 1)
    IN  [n     |-> CHA_BLOCK_SIZE,
         out   |-> BlockBytes(state[12], state[13]),
         state |-> [state EXCEPT ![12] = c[1], ![13] = c[2]]]

\* the SSSE3 COUNTER_INCREMENT with the carry taken as (new & old) >> 31
COUNTER_INCREMENT_4_and(orig, addv) ==
    LET n12 == [l \in DOMAIN addv |-> AddW(orig.w12[l], addv[l])]
    IN  [w12 |-> n12,
         w13 |-> [l \in DOMAIN addv |->
                    AddW(orig.w13[l], Bit(orig.w12[l] < 0 /\ n12[l] < 0))]]

\* SSSE3 COUNTER_INCREMENT: carry = ((new ^ old) & old) >> 31, per lane
COUNTER_INCREMENT_4(orig, addv) ==
    LET n12 == [l \in DOMAIN addv |-> AddW(orig.w12[l], addv[l])]
    IN  [w12 |-> n12,
         w13 |-> [l \in DOMAIN addv |->
                    AddW(orig.w13[l], Bit(orig.w12[l] < 0 /\ n12[l] >= 0))]]

\* 4-block batch function (SSSE3): bufsize / 256 batches of four lanes
_cha_4block(bufsize, state, rounds) ==
    LET lanes   == 0 .. 3
        batches == bufsize \div 256
        first   == COUNTER_INCREMENT_4(
                     [w12 |-> [l \in lanes |-> state[12]],
                      w13 |-> [l \in lanes |-> state[13]]],
                     [l \in lanes |-> l])
        quad(o) == Cat(Cat(BlockBytes(o.w12[0], o.w13[0]),
                           BlockBytes(o.w12[1], o.w13[1])),
                       Cat(BlockBytes(o.w12[2], o.w13[2]),
                           BlockBytes(o.w12[3], o.w13[3])))
        RECURSIVE loop(_, _, _)
        loop(b, o, out) ==
            IF b = 0 THEN [orig |-> o, out |-> out]
            ELSE loop(b - 1,
                      COUNTER_INCREMENT_4(o, [l \in lanes |-> 4]),
                      Cat(out, quad(o)))
        r == loop(batches, first, <<>>)
    IN  [n     |-> batches * 256,
         out   |-> r.out,
         state |-> [state EXCEPT ![12] = r.orig.w12[0], ![13] = r.orig.w13[0]]]

\* Neon COUNTER_INCREMENT: carry = vcltq_u32(new, addv) >> 31, the comparison
\* being the unsigned one
COUNTER_INCREMENT_N(orig, addv) ==
    LET n12 == [l \in DOMAIN addv |-> AddW(orig.w12[l], addv[l])]
    IN  [w12 |-> n12,
         w13 |-> [l \in DOMAIN addv |->
                    AddW(orig.w13[l], Bit(ULt(n12[l], addv[l])))]]

\* 4-block batch function (Neon): bufsize / 256 batches of four lanes
_cha_4block_neon(bufsize, state, rounds) ==
    LET lanes   == 0 .. 3
        batches == bufsize \div 256
        first   == COUNTER_INCREMENT_N(
                     [w12 |-> [l \in lanes |-> state[12]],
                      w13 |-> [l \in lanes |-> state[13]]],
                     [l \in lanes |-> l])
        quad(o) == Cat(Cat(BlockBytes(o.w12[0], o.w13[0]),
                           BlockBytes(o.w12[1], o.w13[1])),
                       Cat(BlockBytes(o.w12[2], o.w13[2]),
                           BlockBytes(o.w12[3], o.w13[3])))
        RECURSIVE loop(_, _, _)
        loop(b, o, out) ==
            IF b = 0 THEN [orig |-> o, out |-> out]
            ELSE loop(b - 1,
                      COUNTER_INCREMENT_N(o, [l \in lanes |-> 4]),
                      Cat(out, quad(o)))
        r == loop(batches, first, <<>>)
    IN  [n     |-> batches * 256,
         out   |-> r.out,
         state |-> [state EXCEPT ![12] = r.orig.w12[0], ![13] = r.orig.w13[0]]]

\* AVX2 COUNTER_INCREMENT: carry = _mm256_cmpgt_epi32(addv, new) >> 31, the
\* comparison being the signed one
COUNTER_INCREMENT_8(orig, addv) ==
    LET n12 == [l \in DOMAIN addv |-> AddW(orig.w12[l], addv[l])]
    IN  [w12 |-> n12,
         w13 |-> [l \in DOMAIN addv |->
                    AddW(orig.w13[l], Bit(addv[l] > n12[l]))]]

\* 8-block batch function (AVX2): bufsize / 512 batches of eight lanes
_cha_8block(bufsize, state, rounds) ==
    LET lanes   == 0 .. 7
        batches == bufsize \div 512
        first   == COUNTER_INCREMENT_8(
                     [w12 |-> [l \in lanes |-> state[12]],
                      w13 |-> [l \in lanes |-> state[13]]],
                     [l \in lanes |-> l])
        RECURSIVE octo(_, _)
        octo(o, l) == IF l = 8 THEN <<>>
                      ELSE Cat(BlockBytes(o.w12[l], o.w13[l]), octo(o, l + 1))
        RECURSIVE loop(_, _, _)
        loop(b, o, out) ==
            IF b = 0 THEN [orig |-> o, out |-> out]
            ELSE loop(b - 1,
                      COUNTER_INCREMENT_8(o, [l \in lanes |-> 8]),
                      Cat(out, octo(o, 0)))
        r == loop(batches, first, <<>>)
    IN  [n     |-> batches * 512,
         out   |-> r.out,
         state |-> [state EXCEPT ![12] = r.orig.w12[0], ![13] = r.orig.w13[0]]]

----------------------------------------------------------------------------
(* Streaming context (chacha20.h)                                          *)

\* the implementations cha_generate_batch can dispatch to on x86_64
Impls == {"avx2", "ssse3"}

\* cha_init: constants, key, iv (counter words 12..13, nonce words 14..15)
cha_init(key, iv, rounds) ==
    [state      |-> [i \in 0 .. 15 |->
                       IF i < 4 THEN <<1634760805, 857760878, 2036477234, 1797285236>>[i + 1]
                       ELSE IF i < 12 THEN key[i - 3]
                       ELSE iv[i - 11]],
     unconsumed |-> Zeros(BATCH_SIZE),
     offset     |-> 0,
     end        |-> 0,
     rounds     |-> rounds]

\* a wipe that clears the state words and the offsets only
cha_wipe_state(c) ==
    [c EXCEPT !.state = [w \in 0 .. 15 |-> 0], !.offset = 0, !.end = 0, !.rounds = 0]

\* the context once cha_wipe has zeroed it
cha_wipe(c) ==
    [state |-> [w \in 0 .. 15 |-> 0], unconsumed |-> Zeros(BATCH_SIZE),
     offset |-> 0, end |-> 0, rounds |-> 0]

\* cha_seek_blocks adding the offset to the 96-bit value in words 12..14
cha_seek_blocks_96(ctx, offset) ==
    LET c == Add64(ctx.state[12], ctx.state[13], offset)
        carry == offset > 0 /\ (ULt(c[2], ctx.state[13]) \/
                                (c[2] = ctx.state[13] /\ ULt(c[1], ctx.state[12])))
    IN  [ctx EXCEPT !.state = [ctx.state EXCEPT ![12] = c[1], ![13] = c[2],
                                                ![14] = AddW(@, Bit(carry))],
                    !.offset = 0, !.end = 0]

\* cha_seek_blocks taking its carry from a signed comparison
cha_seek_blocks_signed(ctx, offset) ==
    LET lo == AddW(ctx.state[12], offset)
        hi == AddW(AddW(ctx.state[13], IF offset < 0 THEN -1 ELSE 0),
                   Bit(offset > lo))
    IN  [ctx EXCEPT !.state[12] = lo, !.state[13] = hi, !.offset = 0, !.end = 0]

\* cha_seek_blocks: 64-bit wrapping add on the counter, carry-over emptied
cha_seek_blocks(ctx, offset) ==
    LET c == Add64(ctx.state[12], ctx.state[13], offset)
    IN  [ctx EXCEPT !.state[12] = c[1], !.state[13] = c[2],
                    !.offset = 0, !.end = 0]

\* cha_generate_batch on x86_64: AVX2 -> 8-block, SSSE3 -> 4-block; without
\* SSSE3 one call of the scalar block function, whatever outsize is
cha_generate_batch(impl, outsize, state, rounds) ==
    IF impl = "avx2" THEN _cha_8block(outsize, state, rounds)
    ELSE IF impl = "ssse3" THEN _cha_4block(outsize, state, rounds)
    ELSE _cha_block(state, rounds)

\* the 512-byte unconsumed buffer after a batch function stored g.out at its start
Stored(unconsumed, g) == Cat(g.out, Drop(unconsumed, g.n))

\* cha_update_regen generating the stored buffer whatever ctx->end is
cha_update_regen_always(impl, ctx) ==
    LET g == cha_generate_batch(impl, BATCH_SIZE, ctx.state, ctx.rounds)
    IN  [ctx EXCEPT !.state = g.state,
                    !.unconsumed = Stored(ctx.unconsumed, g), !.end = g.n]

\* cha_update lines 97..100: the stored buffer is generated if it is empty
cha_update_regen(impl, ctx) ==
    IF ctx.end # 0 THEN ctx
    ELSE LET g == cha_generate_batch(impl, BATCH_SIZE, ctx.state, ctx.rounds)
         IN  [ctx EXCEPT !.state = g.state,
                         !.unconsumed = Stored(ctx.unconsumed, g), !.end = g.n]

\* cha_update lines 102..107: N = min(end - offset, outlen) stored bytes are
\* delivered (end - offset is computed in uint32_t: it wraps if offset > end)
cha_update_deliver(c, outlen) ==
    LET avail == c.end - c.offset
        N == IF avail < 0 \/ avail > outlen THEN outlen ELSE avail
    IN  [ctx |-> [c EXCEPT !.offset = c.offset + N],
         out |-> Slice(c.unconsumed, c.offset, N)]

\* cha_update lines 95..110: if (ctx->offset) { ... }
cha_update_stored(impl, ctx, outlen) ==
    IF ctx.offset = 0 THEN [ctx |-> ctx, out |-> <<>>]
    ELSE cha_update_deliver(cha_update_regen(impl, ctx), outlen)

\* cha_update_direct leaving the counter where it was
cha_update_direct_nostate(impl, a, outlen) ==
    LET g == cha_generate_batch(impl, outlen - Size(a.out), a.ctx.state, a.ctx.rounds)
    IN  [ctx |-> a.ctx, out |-> Cat(a.out, g.out)]

\* cha_update line 111: out += cha_generate_batch(out, end - out, ...)
cha_update_direct(impl, a, outlen) ==
    LET g == cha_generate_batch(impl, outlen - Size(a.out), a.ctx.state, a.ctx.rounds)
    IN  [ctx |-> [a.ctx EXCEPT !.state = g.state], out |-> Cat(a.out, g.out)]

\* cha_update lines 112..119: the tail comes from a new stored batch
cha_update_tail(impl, b, outlen) ==
    LET N == outlen - Size(b.out)
        g == cha_generate_batch(impl, BATCH_SIZE, b.ctx.state, b.ctx.rounds)
    IN  IF N = 0 THEN b
        ELSE [ctx |-> [b.ctx EXCEPT !.state = g.state,
                                    !.unconsumed = Stored(b.ctx.unconsumed, g),
                                    !.end = g.n, !.offset = N],
              out |-> Cat(b.out, Slice(Stored(b.ctx.unconsumed, g), 0, N))]

\* cha_update: [ctx |-> the context after the call, out |-> the outlen bytes
\* stored to out]
cha_update(impl, ctx, outlen) ==
    LET a == cha_update_stored(impl, ctx, outlen)
    IN  IF ctx.offset # 0 /\ Size(a.out) = outlen THEN a
        ELSE cha_update_tail(impl, cha_update_direct(impl, a, outlen), outlen)

\* cha_uint64, the refill: ctx->end = ctx->gen(ctx->unconsumed, BATCH_SIZE,
\* ctx->state, ctx->rounds), after offset was set to newoffset
cha_uint64_refill(impl, ctx, newoffset) ==
    LET g == cha_generate_batch(impl, BATCH_SIZE, ctx.state, ctx.rounds)
    IN  [ctx EXCEPT !.offset = newoffset, !.end = g.n, !.state = g.state,
                    !.unconsumed = Stored(ctx.unconsumed, g)]

\* cha_uint64, the read: ret = *(uint64_t*)(unconsumed + offset); offset += 8.
\* [ctx, ret |-> the eight bytes, least significant first, at |-> offset read
\* at, end |-> ctx->end at the read, ub |-> the read leaves
\* unconsumed[0 .. BATCH_SIZE)]
cha_uint64_read(c) ==
    [ctx |-> [c EXCEPT !.offset = AddW(c.offset, 8)],
     ret |-> IF c.offset < 0 \/ c.offset + 8 > BATCH_SIZE THEN <<>>
             ELSE Slice(c.unconsumed, c.offset, 8),
     at  |-> c.offset,
     end |-> c.end,
     ub  |-> c.offset < 0 \/ c.offset + 8 > BATCH_SIZE]

\* cha_uint64 of npbitgen.h: the carry-over is refilled when offset = end
cha_uint64_npbitgen(impl, ctx) ==
    IF ctx.offset = ctx.end
    THEN cha_uint64_read(cha_uint64_refill(impl, ctx, 0))
    ELSE cha_uint64_read(ctx)

\* cha_uint64 next to the scalar block function: the carry-over is refilled
\* when offset + 8 > end, with offset -= end in uint32_t
cha_uint64(impl, ctx) ==
    IF ctx.offset < 0 \/ ctx.offset + 8 > ctx.end
    THEN cha_uint64_read(cha_uint64_refill(impl, ctx, AddW(ctx.offset, 0 - ctx.end)))
    ELSE cha_uint64_read(ctx)

\* next_uint64 of the bit generator bitgen
next_uint64(bitgen, impl, ctx) ==
    IF bitgen = "npbitgen" THEN cha_uint64_npbitgen(impl, ctx)
    ELSE cha_uint64(impl, ctx)

\* cha_uint32: return cha_uint64(st), converted to uint32_t: the low four
\* bytes of the eight read
cha_uint32(bitgen, impl, ctx) ==
    LET r == next_uint64(bitgen, impl, ctx)
    IN  [r EXCEPT !.ret = Take(r.ret, 4)]

\* cha_double: cha_uint64(st) / 2^64 in npbitgen.h, (cha_uint64(st) >> 11) *
\* 2^-53 next to the scalar block function; ret is the eight bytes the
\* double is computed from and conv the conversion
cha_double(bitgen, impl, ctx) ==
    LET r == next_uint64(bitgen, impl, ctx)
    IN  [ctx |-> r.ctx, ret |-> r.ret, at |-> r.at, end |-> r.end, ub |-> r.ub,
         conv |-> IF bitgen = "npbitgen" THEN "u64 / 2^64" ELSE "(u64 >> 11) * 2^-53"]

\* u + d * 2^(16 * 0) on four 16-bit limbs, as the five limbs of the sum
AddLimbs(u, d) ==
    LET s0 == u[4] + d
        s1 == u[3] + s0 \div 65536
        s2 == u[2] + s1 \div 65536
        s3 == u[1] + s2 \div 65536
    IN  <<s3 \div 65536, s3 % 65536, s2 % 65536, s1 % 65536, s0 % 65536>>

\* floor(log2(n)) for 1 <= n < 2^16
RECURSIVE Log2(_)
Log2(n) == IF n < 2 THEN 0 ELSE 1 + Log2(n \div 2)

RECURSIVE Pow2(_)
Pow2(n) == IF n = 0 THEN 1 ELSE 2 * Pow2(n - 1)

\* (double)u for a uint64_t u: exact below 2^53, else rounded to 53
\* significant bits, to nearest and ties to even
ToDouble(u) ==
    IF u[1] < 32 THEN <<0>> \o u
    ELSE LET unit == Pow2(Log2(u[1]) - 4)
             rem  == u[4] % unit
             odd  == (u[4] \div unit) % 2 = 1
             up   == 2 * rem > unit \/ (2 * rem = unit /\ odd)
         IN  AddLimbs(u, (IF up THEN unit ELSE 0) - rem)

\* cha_double of npbitgen.h: cha_uint64(st) / (UINT64_MAX + 1.0); the
\* division by 2^64 is exact
cha_double_npbitgen(u) == ToDouble(u)

\* cha_double next to the scalar block function: (u >> 11) * 2^-53, exact
cha_double_shift(u) == <<0, u[1], u[2], u[3], u[4] - (u[4] % 2048)>>

\* next_double of the bit generator bitgen on the drawn value u
next_double(bitgen, u) ==
    IF bitgen = "npbitgen" THEN cha_double_npbitgen(u) ELSE cha_double_shift(u)

\* The arithmetic of the scalar block function.  Here a uint32_t is the pair
\* <<high 16 bits, low 16 bits>>.
Halves(w) == <<(w \div 65536) % 65536, w % 65536>>

Add32(p, q) ==
    <<(p[1] + q[1] + (p[2] + q[2]) \div 65536) % 65536, (p[2] + q[2]) % 65536>>

RECURSIVE Xor16(_, _)
Xor16(a, b) ==
    IF a = 0 THEN b
    ELSE IF b = 0 THEN a
    ELSE ((a + b) % 2) + 2 * Xor16(a \div 2, b \div 2)

Xor32(p, q) == <<Xor16(p[1], q[1]), Xor16(p[2], q[2])>>

\* (c << n) | (c >> (32 - n)) for n = 16 and for n < 16
Rotl(p, n) ==
    IF n = 16 THEN <<p[2], p[1]>>
    ELSE <<((p[1] * Pow2(n)) % 65536) + (p[2] \div Pow2(16 - n)),
           ((p[2] * Pow2(n)) % 65536) + (p[1] \div Pow2(16 - n))>>

\* QUARTERSTEP with the rotation by 7 replaced by one by 8
QUARTERSTEP_rot8(x, a, b, c, n) ==
    CHOOSE r \in {[y EXCEPT ![a] = Add32(y[a], y[b]),
                            ![c] = Rotl(Xor32(y[c], Add32(y[a], y[b])),
                                        IF n = 7 THEN 8 ELSE n)] : y \in {x}} : TRUE

\* QUARTERSTEP(a, b, c, n): a += b; c ^= a; c = (c << n) | (c >> (32 - n))
QUARTERSTEP(x, a, b, c, n) ==
    CHOOSE r \in {[y EXCEPT ![a] = Add32(y[a], y[b]),
                            ![c] = Rotl(Xor32(y[c], Add32(y[a], y[b])), n)] : y \in {x}} : TRUE

\* the quarter rounds of one double round, as <<a, b, c, d>>: the columns
\* x[j], x[4 + j], x[8 + j], x[12 + j], then the diagonals x[j],
\* x[4 + (j+1)%4], x[8 + (j+2)%4], x[12 + (j+3)%4]
QuarterRounds ==
    [q \in 0 .. 7 |->
        IF q < 4 THEN <<q, 4 + q, 8 + q, 12 + q>>
        ELSE <<q - 4, 4 + ((q - 3) % 4), 8 + ((q - 2) % 4), 12 + ((q - 1) % 4)>>]

\* step s of the rounds: QUARTERROUND(a, b, c, d) is QUARTERSTEP(a, b, d, 16);
\* QUARTERSTEP(c, d, b, 12); QUARTERSTEP(a, b, d, 8); QUARTERSTEP(c, d, b, 7)
MixStep(x, s) ==
    LET q == QuarterRounds[(s \div 4) % 8]
    IN  IF s % 4 = 0 THEN QUARTERSTEP(x, q[1], q[2], q[4], 16)
        ELSE IF s % 4 = 1 THEN QUARTERSTEP(x, q[3], q[4], q[2], 12)
        ELSE IF s % 4 = 2 THEN QUARTERSTEP(x, q[1], q[2], q[4], 8)
        ELSE QUARTERSTEP(x, q[3], q[4], q[2], 7)

\* steps lo .. hi - 1 in order
RECURSIVE MixRange(_, _, _)
MixRange(x, lo, hi) ==
    IF hi - lo = 1 THEN MixStep(x, lo)
    ELSE CHOOSE r \in {MixRange(y, (lo + hi) \div 2, hi)
                          : y \in {MixRange(x, lo, (lo + hi) \div 2)}} : TRUE

\* for (unsigned i = rounds / 2; i-->0;): i double rounds of 32 steps
Mix(x, i) == IF i = 0 THEN x ELSE MixRange(x, 0, 32 * i)

\* the bytes of a uint32_t in memory, least significant first
WordBytes(p) == <<p[2] % 256, p[2] \div 256, p[1] % 256, p[1] \div 256>>

RECURSIVE Flatten(_)
Flatten(ss) == IF ss = <<>> THEN <<>> ELSE Head(ss) \o Flatten(Tail(ss))

\* the 64 bytes _cha_block stores for the state words st (16 pairs):
\* buf[i] = x[i] + state[i] after rounds / 2 double rounds
BlockValue(st, rounds) ==
    CHOOSE r \in {Flatten([i \in 1 .. 16 |->
                              WordBytes(Add32(xy[1][i - 1], xy[2][i - 1]))])
                     : xy \in {<<Mix(y, rounds \div 2), y>> : y \in {st}}} : TRUE

\* the bytes of one run <<c13, c12, from, n>> of a byte string produced with
\* the state words of c
RunValue(c, run) ==
    IF run[3] = -1 THEN [i \in 1 .. run[4] |-> 0]
    ELSE SubSeq(BlockValue([i \in 0 .. 15 |->
                               Halves(IF i = 12 THEN run[2]
                                      ELSE IF i = 13 THEN run[1] ELSE c.state[i])],
                           c.rounds),
                run[3] + 1, run[3] + run[4])

\* the bytes of a byte string produced by the context c
Value(c, bs) == Flatten([i \in 1 .. Len(bs) |-> RunValue(c, bs[i])])

\* the reference keystream: n successive scalar blocks from counter (c12, c13)
RECURSIVE ScalarBlocks(_, _)
ScalarBlocks(state, n) ==
    IF n = 0 THEN <<>>
    ELSE LET b == _cha_block(state, 20)
         IN  Cat(b.out, ScalarBlocks(b.state, n - 1))

\* bytes pos .. pos+len-1 of the keystream of a context set up by cha_init(key, iv)
Keystream(key, iv, pos, len) ==
    Slice(ScalarBlocks(cha_init(key, iv, 20).state,
                       (pos + len + CHA_BLOCK_SIZE - 1) \div CHA_BLOCK_SIZE),
          pos, len)

----------------------------------------------------------------------------
(* State                                                                   *)

VARIABLES
    \* library use of one streaming context
    impl,       \* implementation cha_generate_batch dispatches to
    iv,         \* the iv given to cha_init: <<counter lo, counter hi, nonce, nonce>>
    ctx,        \* the cha_ctx
    pos,        \* bytes delivered by cha_update since cha_init, before the last call
    outlen,     \* length asked of the last cha_update
    out,        \* bytes the last cha_update stored
    calls,      \* cha_update calls made
    \* the same offset read through cha_seek_blocks on a second fresh context
    k,          \* byte offset read (-1: none)
    ctx2,       \* the second cha_ctx
    out2,       \* bytes its cha_update stored
    step2,      \* "fresh", "sought", "read"
    \* the command line tool: fast() on the main thread and its producers
    workers,    \* -t
    max_bytes,  \* -b (0: no cap)
    quit,       \* static volatile bool quit
    sigs,       \* SIGINT/SIGTERM deliveries handled by signal_handler
    done,       \* args[s].done
    buf,        \* args[s].buf contents
    lock,       \* owner of args[s].lock: "free", "writer", "producer"
    woken,      \* threads blocked on args[s].cond that a signal has released
    pctx,       \* the cha_ctx local to producer s
    ppc,        \* where producer s is
    cancel,     \* pthread_cancel has been requested for producer s
    wpc,        \* where fast() is
    widx,       \* i of the write loop in fast()
    jidx,       \* i of the shutdown loop in fast()
    sz,         \* size of the write in progress
    bytes,      \* the byte total fast() keeps
    file,       \* bytes the output has received
    nwrites,    \* fwrite calls made
    qwrites,    \* fwrite calls made after quit had become true
    slots,      \* slot each fwrite call took its data from
    failed,     \* an fwrite call has failed
    ret,        \* exit status of the process (-1 while running)
    \* two seeks on ctx against one seek by their sum on ctx2
    da,         \* delta of the first cha_seek_blocks
    db,         \* delta of the second cha_seek_blocks
    step1,      \* "fresh", "a", "ab", "read"
    \* one call of a batch block function
    bfn,        \* the function called ("none" before the call)
    bsize,      \* its bufsize
    bstate,     \* state[16] on entry
    bres,       \* [n |-> value returned, out |-> bytes stored, state |-> state[16] on return]
    \* behaviour the C standard leaves undefined
    undef,      \* TRUE once a call stored or read outside a buffer
    \* bit-generator draws on the context ctx
    bitgen,     \* "npbitgen" (npbitgen.h) or "cha1block" (next to the scalar block function)
    last,       \* the last operation: "update", "seek", "uint64", "uint32", "double"
    drawn,      \* bytes of the value the last draw returned, least significant first
    rdoff,      \* offset in unconsumed the last draw read at (-1: no draw yet)
    rdend,      \* ctx->end at that read
    \* one conversion of a drawn value to a double
    u64,        \* the uint64_t drawn: four 16-bit limbs, most significant first
    dbl,        \* the double returned times 2^64: five 16-bit limbs, most significant first
    \* main() reading its options
    targ,       \* what follows -t on the command line: <<kind, value>>
    rarg,       \* what follows -r on the command line: <<kind, value>>
    rounds,     \* unsigned int rounds of main()
    mainpc,     \* "getopt_t", "getopt_r", "fast", "running", "return"
    \* one call of cha_generate
    vkey,       \* the key given, as eight words
    vout        \* the bytes stored in out, as numbers 0 .. 255

libVars == <<impl, iv, ctx, pos, outlen, out, calls>>
seekVars == <<k, ctx2, out2, step2>>
slotVars == <<done, buf, lock, woken, pctx, ppc, cancel>>
writerVars == <<wpc, widx, jidx, sz, bytes, file, nwrites, qwrites, slots, failed, ret>>
pipeVars == <<workers, max_bytes, quit, sigs, slotVars, writerVars>>
addVars == <<da, db, step1>>
batchVars == <<bfn, bsize, bstate, bres>>
drawVars == <<undef, bitgen, last, drawn, rdoff, rdend>>
optVars == <<targ, rarg, rounds, mainpc>>
vecVars == <<vkey, vout>>
fnVars == <<u64, dbl, optVars, vecVars>>
extVars == <<addVars, batchVars, drawVars, fnVars>>
vars == <<libVars, seekVars, pipeVars, extVars>>

\* bounds of the library model
MaxCalls == 4
Lens == {0, 1, 63, 64, 448, 513}
Offsets == {0, 1, 63, 64, 511, 512, 575, 1000}

\* key words and initial counters tried; the nonce words are those of default_iv
Key == [i \in 1 .. 8 |-> i]
Counters == {<<0, 0>>, <<MaxW - 7, 0>>, <<-4, 0>>}
IVs == {<<c[1], c[2], 1684955474, 1802073425>> : c \in Counters}

----------------------------------------------------------------------------
(* Library specification: cha_init, then cha_update calls                  *)

\* the variables of the other library scenarios at rest
AddIdle == da = 0 /\ db = 0 /\ step1 = "none"

BatchIdle == bfn = "none" /\ bsize = 0 /\ bstate = <<>> /\ bres = <<>>

OptIdle ==
    /\ targ = <<"absent", 0>> /\ rarg = <<"absent", 0>>
    /\ rounds = 20 /\ mainpc = "none"

VecIdle == vkey = <<>> /\ vout = <<>>

FnIdle == u64 = <<>> /\ dbl = <<>> /\ OptIdle /\ VecIdle

DrawIdle ==
    /\ undef = FALSE /\ bitgen = "none" /\ last = "none"
    /\ drawn = <<>> /\ rdoff = -1 /\ rdend = 0

ExtIdle ==
    /\ AddIdle
    /\ BatchIdle
    /\ FnIdle
    /\ DrawIdle

\* the command line tool not running
PipeIdle ==
    /\ workers = 0 /\ max_bytes = 0 /\ quit = FALSE /\ sigs = 0
    /\ done = <<>> /\ buf = <<>> /\ lock = <<>> /\ woken = <<>>
    /\ pctx = <<>> /\ ppc = <<>> /\ cancel = <<>>
    /\ wpc = "idle" /\ widx = -1 /\ jidx = 0 /\ sz = 0 /\ bytes = 0 /\ file = <<>>
    /\ nwrites = 0 /\ qwrites = 0 /\ slots = <<>> /\ failed = FALSE /\ ret = -1

\* two contexts fresh from cha_init with the same key, iv and rounds
FreshInit ==
    /\ PipeIdle
    /\ ExtIdle
    /\ impl \in Impls
    /\ iv \in IVs
    /\ ctx = cha_init(Key, iv, 20)
    /\ pos = 0 /\ outlen = 0 /\ out = <<>> /\ calls = 0
    /\ ctx2 = cha_init(Key, iv, 20) /\ out2 = <<>> /\ step2 = "fresh"

LibInit ==
    /\ FreshInit
    /\ k = -1

Update(len) ==
    /\ calls < MaxCalls
    /\ LET r == cha_update(impl, ctx, len)
       IN  /\ ctx' = r.ctx
           /\ out' = r.out
    /\ pos' = pos + outlen
    /\ outlen' = len
    /\ calls' = calls + 1
    /\ UNCHANGED <<impl, iv, seekVars, pipeVars, extVars>>

LibNext == \E len \in Lens : Update(len)

Spec == LibInit /\ [][LibNext]_vars

----------------------------------------------------------------------------
(* Seek specification: byte k read sequentially and through a seek         *)

SeekInit ==
    /\ FreshInit
    /\ k \in Offsets

ReadSequential ==
    /\ calls = 0
    /\ Update(k + 1)

SeekTo ==
    /\ step2 = "fresh"
    /\ ctx2' = cha_seek_blocks(ctx2, k \div CHA_BLOCK_SIZE)
    /\ step2' = "sought"
    /\ UNCHANGED <<libVars, k, out2, pipeVars, extVars>>

ReadSought ==
    /\ step2 = "sought"
    /\ LET r == cha_update(impl, ctx2, (k % CHA_BLOCK_SIZE) + 1)
       IN  /\ ctx2' = r.ctx
           /\ out2' = r.out
    /\ step2' = "read"
    /\ UNCHANGED <<libVars, k, pipeVars, extVars>>

SeekNext == ReadSequential \/ SeekTo \/ ReadSought

SeekSpec == SeekInit /\ [][SeekNext]_vars

----------------------------------------------------------------------------
(* Seek additivity specification: cha_seek_blocks(da); cha_seek_blocks(db) *)
(* on one context, cha_seek_blocks(da + db) on another in the same state,  *)
(* then the same cha_update on both                                        *)

\* deltas (int64_t offset), initial counters, lengths of the cha_update made
\* before the seeks and after them
Deltas == {-9, -1, 8, 1073741823}
AddCounters == Counters \cup {<<0, 5>>, <<-4, -1>>}
AddIVs == {<<c[1], c[2], 1684955474, 1802073425>> : c \in AddCounters}
PreLens == {0, 1}
ReadLens == {1, 513}

AddInit ==
    /\ PipeIdle
    /\ impl \in Impls
    /\ iv \in AddIVs
    /\ \E pre \in PreLens :
          /\ ctx = cha_update(impl, cha_init(Key, iv, 20), pre).ctx
          /\ ctx2 = cha_update(impl, cha_init(Key, iv, 20), pre).ctx
    /\ pos = 0 /\ outlen \in ReadLens /\ out = <<>> /\ calls = 0
    /\ k = -1 /\ out2 = <<>> /\ step2 = "fresh"
    /\ da \in Deltas /\ db \in Deltas /\ step1 = "fresh"
    /\ BatchIdle
    /\ FnIdle
    /\ DrawIdle

SeekA ==
    /\ step1 = "fresh"
    /\ ctx' = cha_seek_blocks(ctx, da)
    /\ step1' = "a"
    /\ UNCHANGED <<impl, iv, pos, outlen, out, calls, seekVars, pipeVars, da, db, batchVars, fnVars, drawVars>>

SeekB ==
    /\ step1 = "a"
    /\ ctx' = cha_seek_blocks(ctx, db)
    /\ step1' = "ab"
    /\ UNCHANGED <<impl, iv, pos, outlen, out, calls, seekVars, pipeVars, da, db, batchVars, fnVars, drawVars>>

ReadAfterTwo ==
    /\ step1 = "ab"
    /\ LET r == cha_update(impl, ctx, outlen)
       IN  /\ ctx' = r.ctx
           /\ out' = r.out
    /\ step1' = "read"
    /\ UNCHANGED <<impl, iv, pos, outlen, calls, seekVars, pipeVars, da, db, batchVars, fnVars, drawVars>>

SeekSum ==
    /\ step2 = "fresh"
    /\ ctx2' = cha_seek_blocks(ctx2, da + db)
    /\ step2' = "sought"
    /\ UNCHANGED <<libVars, k, out2, pipeVars, extVars>>

ReadAfterSum ==
    /\ step2 = "sought"
    /\ LET r == cha_update(impl, ctx2, outlen)
       IN  /\ ctx2' = r.ctx
           /\ out2' = r.out
    /\ step2' = "read"
    /\ UNCHANGED <<libVars, k, pipeVars, extVars>>

AddNext == SeekA \/ SeekB \/ ReadAfterTwo \/ SeekSum \/ ReadAfterSum

AddSpec == AddInit /\ [][AddNext]_vars

----------------------------------------------------------------------------
(* Cursor specification: cha_update calls delivering p bytes, p a multiple *)
(* of 64, then cha_seek_blocks(da) and the cha_update of one byte          *)

CursorDeltas == {-1, 0, 1, 8}
CursorLens == {1, 63, 64, 512}
CursorCounters == {<<0, 0>>, <<5, -1>>}

CursorInit ==
    /\ PipeIdle
    /\ impl \in Impls
    /\ \E c \in CursorCounters : iv = <<c[1], c[2], 1684955474, 1802073425>>
    /\ ctx = cha_init(Key, iv, 20)
    /\ pos = 0 /\ outlen = 0 /\ out = <<>> /\ calls = 0
    /\ k = -1 /\ ctx2 = cha_init(Key, iv, 20) /\ out2 = <<>> /\ step2 = "fresh"
    /\ da \in CursorDeltas /\ db = 0 /\ step1 = "fresh"
    /\ BatchIdle
    /\ FnIdle
    /\ DrawIdle

CursorUpdate(len) ==
    /\ step1 = "fresh"
    /\ Update(len)

\* cha_seek_blocks(&ctx, da) once pos + outlen = p bytes have been delivered;
\* pos becomes p
CursorSeek ==
    /\ step1 = "fresh"
    /\ (pos + outlen) % CHA_BLOCK_SIZE = 0
    /\ pos + outlen + CHA_BLOCK_SIZE * da >= 0
    /\ ctx' = cha_seek_blocks(ctx, da)
    /\ pos' = pos + outlen
    /\ outlen' = 0
    /\ step1' = "sought"
    /\ UNCHANGED <<impl, iv, out, calls, seekVars, pipeVars, da, db, batchVars, fnVars, drawVars>>

\* cha_update(&ctx, out, 1) after the seek
CursorRead ==
    /\ step1 = "sought"
    /\ LET r == cha_update(impl, ctx, 1)
       IN  /\ ctx' = r.ctx
           /\ out' = r.out
    /\ outlen' = 1
    /\ step1' = "read"
    /\ UNCHANGED <<impl, iv, pos, calls, seekVars, pipeVars, da, db, batchVars, fnVars, drawVars>>

CursorNext == (\E len \in CursorLens : CursorUpdate(len)) \/ CursorSeek \/ CursorRead

CursorSpec == CursorInit /\ [][CursorNext]_vars

----------------------------------------------------------------------------
(* Batch specification: one call of _cha_8block or of _cha_4block (SSSE3,  *)
(* Neon) on a state with a chosen counter                                  *)

\* the streaming contexts not in use
LibIdle ==
    /\ impl = "none" /\ iv = <<0, 0, 1684955474, 1802073425>>
    /\ ctx = cha_init(Key, <<0, 0, 1684955474, 1802073425>>, 20)
    /\ pos = 0 /\ outlen = 0 /\ out = <<>> /\ calls = 0
    /\ k = -1 /\ ctx2 = cha_init(Key, <<0, 0, 1684955474, 1802073425>>, 20) /\ out2 = <<>>
    /\ step2 = "none"

\* entry counters <<state[12], state[13]>> and buffer sizes tried
BatchCounters ==
    {<<0, 0>>, <<MaxW - 7, 0>>, <<MinW, 0>>, <<-8, 0>>, <<-4, 0>>, <<-3, 7>>,
     <<-4, -1>>, <<5, -1>>, <<-1, MaxW>>}
BatchSizes == {0, 255, 256, 512, 1023, 1024, 1536}

BatchInit ==
    /\ PipeIdle
    /\ LibIdle
    /\ AddIdle
    /\ DrawIdle
    /\ FnIdle
    /\ bfn = "none"
    /\ bsize \in BatchSizes
    /\ \E c \in BatchCounters :
          bstate = cha_init(Key, <<c[1], c[2], 1684955474, 1802073425>>, 20).state
    /\ bres = <<>>

Call_cha_8block ==
    /\ bfn = "none"
    /\ bfn' = "_cha_8block"
    /\ bres' = _cha_8block(bsize, bstate, 20)
    /\ UNCHANGED <<libVars, seekVars, pipeVars, addVars, drawVars, fnVars, bsize, bstate>>

Call_cha_4block ==
    /\ bfn = "none"
    /\ bfn' = "_cha_4block"
    /\ bres' = _cha_4block(bsize, bstate, 20)
    /\ UNCHANGED <<libVars, seekVars, pipeVars, addVars, drawVars, fnVars, bsize, bstate>>

Call_cha_4block_neon ==
    /\ bfn = "none"
    /\ bfn' = "_cha_4block_neon"
    /\ bres' = _cha_4block_neon(bsize, bstate, 20)
    /\ UNCHANGED <<libVars, seekVars, pipeVars, addVars, drawVars, fnVars, bsize, bstate>>

BatchNext == Call_cha_8block \/ Call_cha_4block \/ Call_cha_4block_neon

BatchSpec == BatchInit /\ [][BatchNext]_vars

----------------------------------------------------------------------------
(* Dispatch specification: one call of cha_generate_batch for each of its   *)
(* outcomes (8-block, 4-block, scalar fallback), counter and buffer size    *)

Dispatches == {"avx2", "ssse3", "scalar"}
GenSizes == BatchSizes \cup {10, 64}

GenInit ==
    /\ PipeIdle
    /\ AddIdle
    /\ DrawIdle
    /\ FnIdle
    /\ impl \in Dispatches
    /\ iv = <<0, 0, 1684955474, 1802073425>>
    /\ ctx = cha_init(Key, iv, 20)
    /\ pos = 0 /\ outlen = 0 /\ out = <<>> /\ calls = 0
    /\ k = -1 /\ ctx2 = cha_init(Key, iv, 20) /\ out2 = <<>> /\ step2 = "none"
    /\ bfn = "none"
    /\ bsize \in GenSizes
    /\ \E c \in BatchCounters :
          bstate = cha_init(Key, <<c[1], c[2], 1684955474, 1802073425>>, 20).state
    /\ bres = <<>>

\* cha_generate_batch(out, outsize, state, rounds): bres.out is what the call
\* stores from out[0] on, bres.n what it returns
Call_cha_generate_batch ==
    /\ bfn = "none"
    /\ bfn' = "cha_generate_batch"
    /\ bres' = cha_generate_batch(impl, bsize, bstate, 20)
    /\ UNCHANGED <<libVars, seekVars, pipeVars, addVars, drawVars, fnVars, bsize, bstate>>

GenSpec == GenInit /\ [][Call_cha_generate_batch]_vars

----------------------------------------------------------------------------
(* Fallback specification: the same cha_update calls on a context whose    *)
(* cha_generate_batch falls back to the scalar block function (ctx) and on *)
(* one that uses the 4-block or the 8-block function (ctx2)                *)

ScalarLens == {0, 1, 64, 128, 192, 448}

\* the stores and reads of cha_update(ctx, out, len) with the scalar fallback
\* stay inside out[0 .. len) and unconsumed[0 .. BATCH_SIZE)
ScalarDefined(c, len) ==
    LET a   == cha_update_stored("scalar", c, len)
        rem == len - Size(a.out)
    IN  /\ c.offset # 0 => a.ctx.offset <= BATCH_SIZE
        /\ (c.offset = 0 \/ rem > 0) =>
               /\ rem >= CHA_BLOCK_SIZE
               /\ rem - CHA_BLOCK_SIZE <= BATCH_SIZE

ScalarInit ==
    /\ FreshInit
    /\ k = -1

ScalarUpdate(len) ==
    /\ calls < MaxCalls
    /\ ~undef
    /\ ScalarDefined(ctx, len)
    /\ LET r == cha_update("scalar", ctx, len)
           q == cha_update(impl, ctx2, len)
       IN  /\ ctx' = r.ctx /\ out' = r.out
           /\ ctx2' = q.ctx /\ out2' = q.out
    /\ pos' = pos + outlen
    /\ outlen' = len
    /\ calls' = calls + 1
    /\ UNCHANGED <<impl, iv, k, step2, pipeVars, extVars>>

\* the call overruns the caller's buffer or the unconsumed buffer
ScalarOverrun(len) ==
    /\ calls < MaxCalls
    /\ ~undef
    /\ ~ScalarDefined(ctx, len)
    /\ undef' = TRUE
    /\ pos' = pos + outlen
    /\ outlen' = len
    /\ calls' = calls + 1
    /\ UNCHANGED <<impl, iv, ctx, out, seekVars, pipeVars, addVars, batchVars, fnVars,
                   bitgen, last, drawn, rdoff, rdend>>

ScalarNext == \E len \in ScalarLens : ScalarUpdate(len) \/ ScalarOverrun(len)

ScalarSpec == ScalarInit /\ [][ScalarNext]_vars

----------------------------------------------------------------------------
(* Draw specification: cha_update, cha_seek_blocks and bit-generator draws *)
(* on one context, in any order                                            *)

MaxOps == 3
BitGens == {"npbitgen", "cha1block"}
DrawIVs == {<<0, 0, 1684955474, 1802073425>>, <<5, -1, 1684955474, 1802073425>>}
DrawLens == {1, 505, 512}
DrawDeltas == {-1, MaxW}

DrawInit ==
    /\ PipeIdle
    /\ AddIdle
    /\ BatchIdle
    /\ FnIdle
    /\ impl \in Impls
    /\ iv \in DrawIVs
    /\ ctx = cha_init(Key, iv, 20)
    /\ pos = 0 /\ outlen = 0 /\ out = <<>> /\ calls = 0
    /\ k = -1 /\ ctx2 = cha_init(Key, iv, 20) /\ out2 = <<>> /\ step2 = "none"
    /\ undef = FALSE
    /\ bitgen \in BitGens
    /\ last = "none" /\ drawn = <<>> /\ rdoff = -1 /\ rdend = 0

\* pos follows the stream position by the documented widths of the
\* operations, and is -1 once a seek has moved it
Advanced == IF pos < 0 THEN -1 ELSE pos + outlen

DrawUpdate(len) ==
    /\ calls < MaxOps
    /\ ~undef
    /\ \E r \in {cha_update(impl, ctx, len)} :
          /\ ctx' = r.ctx
          /\ out' = r.out
    /\ pos' = Advanced
    /\ outlen' = len
    /\ calls' = calls + 1
    /\ last' = "update"
    /\ UNCHANGED <<impl, iv, seekVars, pipeVars, addVars, batchVars, fnVars,
                   undef, bitgen, drawn, rdoff, rdend>>

DrawSeek(d) ==
    /\ calls < MaxOps
    /\ ~undef
    /\ ctx' = cha_seek_blocks(ctx, d)
    /\ pos' = -1
    /\ outlen' = 0
    /\ calls' = calls + 1
    /\ last' = "seek"
    /\ UNCHANGED <<impl, iv, out, seekVars, pipeVars, addVars, batchVars, fnVars,
                   undef, bitgen, drawn, rdoff, rdend>>

\* one draw: r is what the adapter returns, width the bytes of keystream the
\* draw is documented to advance by
DrawStep(kind, r, width) ==
    /\ ~undef
    /\ ctx' = r.ctx
    /\ drawn' = r.ret
    /\ rdoff' = r.at
    /\ rdend' = r.end
    /\ undef' = r.ub
    /\ pos' = Advanced
    /\ outlen' = width
    /\ calls' = calls + 1
    /\ last' = kind
    /\ UNCHANGED <<impl, iv, out, seekVars, pipeVars, addVars, batchVars, fnVars, bitgen>>

Draw(kind, r, width) ==
    /\ calls < MaxOps
    /\ DrawStep(kind, r, width)

Draw_uint64 == \E r \in {next_uint64(bitgen, impl, ctx)} : Draw("uint64", r, 8)

Draw_uint32 == \E r \in {cha_uint32(bitgen, impl, ctx)} : Draw("uint32", r, 4)

Draw_double == \E r \in {cha_double(bitgen, impl, ctx)} : Draw("double", r, 8)

DrawNext ==
    \/ \E len \in DrawLens : DrawUpdate(len)
    \/ \E d \in DrawDeltas : DrawSeek(d)
    \/ Draw_uint64
    \/ Draw_uint32
    \/ Draw_double

DrawSpec == DrawInit /\ [][DrawNext]_vars

----------------------------------------------------------------------------
(* Sequential draw specification: a context used only through next_uint64  *)
(* after cha_init                                                          *)

MaxDraws == 66

Uint64Init ==
    /\ PipeIdle
    /\ AddIdle
    /\ BatchIdle
    /\ FnIdle
    /\ impl \in Impls
    /\ iv \in IVs
    /\ ctx = cha_init(Key, iv, 20)
    /\ pos = 0 /\ outlen = 0 /\ out = <<>> /\ calls = 0
    /\ k = -1 /\ ctx2 = cha_init(Key, iv, 20) /\ out2 = <<>> /\ step2 = "none"
    /\ undef = FALSE
    /\ bitgen \in BitGens
    /\ last = "none" /\ drawn = <<>> /\ rdoff = -1 /\ rdend = 0

Next_uint64 ==
    /\ calls < MaxDraws
    /\ \E r \in {next_uint64(bitgen, impl, ctx)} : DrawStep("uint64", r, 8)

Uint64Spec == Uint64Init /\ [][Next_uint64]_vars

----------------------------------------------------------------------------
(* Conversion specification: next_double on one drawn 64-bit value         *)

U64s ==
    {<<a, b, b, c>> : a \in {0, 31, 32, 255, 32768, 65535}, b \in {0, 65535},
                      c \in {0, 1, 1023, 1024, 1025, 2047, 2048, 3072,
                              64511, 64512, 65535}}

DoubleInit ==
    /\ PipeIdle
    /\ LibIdle
    /\ AddIdle
    /\ BatchIdle
    /\ undef = FALSE /\ last = "none" /\ drawn = <<>> /\ rdoff = -1 /\ rdend = 0
    /\ bitgen \in BitGens
    /\ u64 \in U64s
    /\ dbl = <<>>
    /\ OptIdle
    /\ VecIdle

Call_next_double ==
    /\ last = "none"
    /\ last' = "double"
    /\ dbl' = next_double(bitgen, u64)
    /\ UNCHANGED <<libVars, seekVars, pipeVars, addVars, batchVars,
                   undef, bitgen, drawn, rdoff, rdend, u64, optVars, vecVars>>

DoubleSpec == DoubleInit /\ [][Call_next_double]_vars

----------------------------------------------------------------------------
(* Wipe specification: cha_init, cha_update calls, then cha_wipe           *)

WipeUpdate(len) ==
    /\ last # "wipe"
    /\ Update(len)

Wipe ==
    /\ last # "wipe"
    /\ ctx' = cha_wipe(ctx)
    /\ last' = "wipe"
    /\ UNCHANGED <<impl, iv, pos, outlen, out, calls, seekVars, pipeVars,
                   addVars, batchVars, fnVars, undef, bitgen, drawn, rdoff, rdend>>

WipeNext == (\E len \in Lens : WipeUpdate(len)) \/ Wipe

WipeSpec == LibInit /\ [][WipeNext]_vars

----------------------------------------------------------------------------
(* Vector specification: cha_generate(out, outlen, key, iv) with the bytes *)
(* it stores computed by the arithmetic of the block function              *)

\* keys as eight little-endian words: 32 zero bytes, the bytes 00 01 .. 1f,
\* and Key
ZeroKey == [i \in 1 .. 8 |-> 0]
CountingKey ==
    <<50462976, 117835012, 185207048, 252579084,
      319951120, 387323156, 454695192, 522067228>>
VectorKeys == {ZeroKey, CountingKey, Key}

\* ivs as four little-endian words: 16 zero bytes; 01 00 00 00 00 00 00 09
\* 00 00 00 4a 00 00 00 00; and counters 1, 2 and 2^32 - 1 with a zero nonce
VectorIVs ==
    {<<0, 0, 0, 0>>, <<1, 150994944, 1241513984, 0>>, <<1, 0, 0, 0>>,
     <<2, 0, 0, 0>>, <<-1, 0, 0, 0>>}
VectorLens == {64, 128}

VectorInit ==
    /\ PipeIdle
    /\ AddIdle
    /\ BatchIdle
    /\ DrawIdle
    /\ u64 = <<>> /\ dbl = <<>>
    /\ OptIdle
    /\ impl \in Impls
    /\ iv \in VectorIVs
    /\ vkey \in VectorKeys
    \* the context is local to cha_generate: outside the call ctx is zeroed
    /\ ctx = cha_wipe(cha_init(vkey, iv, 20))
    /\ pos = 0 /\ outlen \in VectorLens /\ out = <<>> /\ calls = 0
    /\ k = -1 /\ ctx2 = ctx /\ out2 = <<>> /\ step2 = "none"
    /\ vout = <<>>

\* cha_generate: cha_init(&ctx, key, iv, 20); cha_update(&ctx, out, outlen);
\* cha_wipe(&ctx)
Call_cha_generate ==
    /\ calls = 0
    /\ \E r \in {cha_update(impl, cha_init(vkey, iv, 20), outlen)} :
          /\ out' = r.out
          /\ vout' = Value(cha_init(vkey, iv, 20), r.out)
          /\ ctx' = cha_wipe(r.ctx)
    /\ calls' = 1
    /\ UNCHANGED <<impl, iv, pos, outlen, seekVars, pipeVars, addVars, batchVars,
                   drawVars, u64, dbl, optVars, vkey>>

VectorSpec == VectorInit /\ [][Call_cha_generate]_vars

----------------------------------------------------------------------------
(* Claims on the streaming context                                         *)

LastByte(s) == Slice(s, Size(s) - 1, 1)

\* C1: every cha_update delivers exactly the next outlen bytes of the keystream
\* that starts at the initial counter: its output is bytes pos .. pos+outlen-1,
\* pos being the total of the lengths of the calls before it.
C1_UpdateDeliversStream ==
    calls > 0 => out = Keystream(Key, iv, pos, outlen)

\* C10: the byte at offset k read as the last byte of cha_update(k+1) equals
\* the last byte of cha_seek_blocks(k/64); cha_update(k%64+1).
C10_SeekSequenceConsistent ==
    (calls = 1 /\ step2 = "read") => LastByte(out) = LastByte(out2)

----------------------------------------------------------------------------
(* The command line tool (cha4neon.h lines 108..402)                       *)

\* BLOCK_SIZE is 1 << 21, that is 4096 batches of BATCH_SIZE bytes; the model
\* keeps it a whole number of batches and bounds their number
BlockBatches == 2
BLOCK_SIZE == BlockBatches * BATCH_SIZE

\* worker counts tried (-t), the producer threads they need, and the bound on
\* the fwrite calls of one run
WorkerCounts == {1, 2}
Threads == {0, 1}
MaxWrites == 3
Caps == {0, 7, BLOCK_SIZE, BLOCK_SIZE + 7}

\* const unsigned char default_iv[16] = "\0\0\0\0\0\0\0\0RandQuik"
default_iv == <<0, 0, 1684955474, 1802073425>>

Slots == 0 .. workers - 1

\* main() after the options are read and the handlers installed, fast() after
\* its thread creation loop, every producer_thread before its loop (lines
\* 147..150: cha_init, cha_seek_blocks(index * BLOCK_SIZE / 64))
PipeInit ==
    /\ ExtIdle
    /\ impl \in Impls
    /\ iv = default_iv
    /\ ctx = cha_init(Key, iv, 20)
    /\ pos = 0 /\ outlen = 0 /\ out = <<>> /\ calls = 0
    /\ k = -1 /\ ctx2 = cha_init(Key, iv, 20) /\ out2 = <<>> /\ step2 = "fresh"
    /\ workers \in WorkerCounts
    /\ max_bytes \in Caps
    /\ quit = FALSE /\ sigs = 0
    /\ done = [s \in Slots |-> FALSE]
    /\ buf = [s \in Slots |-> <<>>]
    /\ lock = [s \in Slots |-> "free"]
    /\ woken = [s \in Slots |-> {}]
    /\ pctx = [s \in Slots |->
                 cha_seek_blocks(cha_init(Key, default_iv, 20),
                                 (s * BLOCK_SIZE) \div 64)]
    /\ ppc = [s \in Slots |-> "loop"]
    /\ cancel = [s \in Slots |-> FALSE]
    /\ wpc = "loop" /\ widx = -1 /\ jidx = 0 /\ sz = 0 /\ bytes = 0 /\ file = <<>>
    /\ nwrites = 0 /\ qwrites = 0 /\ slots = <<>> /\ failed = FALSE /\ ret = -1

\* void signal_handler(int sig): the first SIGINT or SIGTERM
signal_handler ==
    /\ wpc \notin {"idle", "exit"}
    /\ sigs = 0
    /\ sigs' = 1
    /\ quit' = TRUE
    /\ UNCHANGED <<libVars, seekVars, extVars, workers, max_bytes, slotVars, writerVars>>

\* pthread_cond_signal(&args[s].cond) by thread t: releases the other thread
\* if it is blocked in pthread_cond_wait on that slot
cond_signal(s, t) ==
    LET other == IF t = "writer" THEN "producer" ELSE "writer"
        blocked == IF other = "producer" THEN ppc[s] = "wait"
                   ELSE wpc = "wait" /\ widx = s
    IN  IF blocked THEN [woken EXCEPT ![s] = @ \cup {other}] ELSE woken

(* producer_thread *)

\* const uint64_t ivstep = args->workers * BATCH_BLOCKS
ivstep == workers * BATCH_BLOCKS

\* line 151: while (!quit); lines 162..163 once quit is seen: cha_wipe, return
P_loop(s) ==
    /\ ppc[s] = "loop"
    /\ IF quit
       THEN /\ pctx' = [pctx EXCEPT ![s] = cha_wipe(pctx[s])]
            /\ ppc' = [ppc EXCEPT ![s] = "exited"]
       ELSE /\ ppc' = [ppc EXCEPT ![s] = "lock"]
            /\ UNCHANGED pctx
    /\ UNCHANGED <<done, buf, lock, woken, cancel>>

\* line 152: pthread_mutex_lock
P_lock(s) ==
    /\ ppc[s] = "lock"
    /\ lock[s] = "free"
    /\ lock' = [lock EXCEPT ![s] = "producer"]
    /\ ppc' = [ppc EXCEPT ![s] = "check"]
    /\ UNCHANGED <<done, buf, woken, pctx, cancel>>

\* P_check without the wait for the slot to be drained
P_check_nowait(s) ==
    /\ ppc[s] = "check"
    /\ ppc' = [ppc EXCEPT ![s] = "fill"]
    /\ UNCHANGED <<done, buf, lock, woken, pctx, cancel>>

\* lines 153..154: while (args->done) pthread_cond_wait; the wait is a
\* cancellation point, and a cancelled waiter ends owning the mutex
P_check(s) ==
    /\ ppc[s] = "check"
    /\ IF ~done[s]
       THEN /\ ppc' = [ppc EXCEPT ![s] = "fill"]
            /\ UNCHANGED lock
       ELSE IF cancel[s]
            THEN /\ ppc' = [ppc EXCEPT ![s] = "cancelled"]
                 /\ UNCHANGED lock
            ELSE /\ ppc' = [ppc EXCEPT ![s] = "wait"]
                 /\ lock' = [lock EXCEPT ![s] = "free"]
    /\ UNCHANGED <<done, buf, woken, pctx, cancel>>

\* line 154: pthread_cond_wait returns with the mutex, or is cancelled
P_wait(s) ==
    /\ ppc[s] = "wait"
    /\ lock[s] = "free"
    /\ \/ /\ cancel[s]
          /\ ppc' = [ppc EXCEPT ![s] = "cancelled"]
       \/ /\ "producer" \in woken[s]
          /\ ppc' = [ppc EXCEPT ![s] = "check"]
    /\ lock' = [lock EXCEPT ![s] = "producer"]
    /\ woken' = [woken EXCEPT ![s] = @ \ {"producer"}]
    /\ UNCHANGED <<done, buf, pctx, cancel>>

\* P_fill without the pthread_cond_signal
P_fill_nosignal(s) ==
    /\ ppc[s] = "fill"
    /\ LET r == cha_update(impl, pctx[s], BLOCK_SIZE)
       IN  /\ buf' = [buf EXCEPT ![s] = r.out]
           /\ pctx' = [pctx EXCEPT ![s] = cha_seek_blocks(r.ctx, ivstep)]
    /\ done' = [done EXCEPT ![s] = TRUE]
    /\ ppc' = [ppc EXCEPT ![s] = "unlock"]
    /\ UNCHANGED <<lock, cancel, woken>>

\* lines 156..159: cha_update(&ctx, args->buf, BLOCK_SIZE);
\* cha_seek_blocks(&ctx, ivstep); args->done = 1; pthread_cond_signal
P_fill(s) ==
    /\ ppc[s] = "fill"
    /\ LET r == cha_update(impl, pctx[s], BLOCK_SIZE)
       IN  /\ buf' = [buf EXCEPT ![s] = r.out]
           /\ pctx' = [pctx EXCEPT ![s] = cha_seek_blocks(r.ctx, ivstep)]
    /\ done' = [done EXCEPT ![s] = TRUE]
    /\ woken' = cond_signal(s, "producer")
    /\ ppc' = [ppc EXCEPT ![s] = "unlock"]
    /\ UNCHANGED <<lock, cancel>>

\* line 160: pthread_mutex_unlock
P_unlock(s) ==
    /\ ppc[s] = "unlock"
    /\ lock' = [lock EXCEPT ![s] = "free"]
    /\ ppc' = [ppc EXCEPT ![s] = "loop"]
    /\ UNCHANGED <<done, buf, woken, pctx, cancel>>

producer_thread(s) ==
    /\ \/ P_loop(s) \/ P_lock(s) \/ P_check(s) \/ P_wait(s)
       \/ P_fill(s) \/ P_unlock(s)
    /\ UNCHANGED <<libVars, seekVars, extVars, workers, max_bytes, quit, sigs, writerVars>>

(* fast(), from its write loop on, and the return of main() *)

\* W_loop stepping i by two
W_loop_skip ==
    /\ wpc = "loop"
    /\ IF quit
       THEN /\ wpc' = "sd_clear"
            /\ UNCHANGED widx
       ELSE /\ nwrites < MaxWrites
            /\ widx' = (widx + 2) % workers
            /\ wpc' = "lock"
    /\ UNCHANGED <<slotVars, quit, jidx, sz, bytes, file, nwrites, qwrites, slots, failed, ret>>

\* lines 213..214: while (!quit) { i = (i + 1) % workers; ...
W_loop ==
    /\ wpc = "loop"
    /\ IF quit
       THEN /\ wpc' = "sd_clear"
            /\ UNCHANGED widx
       ELSE /\ nwrites < MaxWrites
            /\ widx' = (widx + 1) % workers
            /\ wpc' = "lock"
    /\ UNCHANGED <<slotVars, quit, jidx, sz, bytes, file, nwrites, qwrites, slots, failed, ret>>

\* line 215: pthread_mutex_lock(&args[i].lock)
W_lock ==
    /\ wpc = "lock"
    /\ lock[widx] = "free"
    /\ lock' = [lock EXCEPT ![widx] = "writer"]
    /\ wpc' = "check"
    /\ UNCHANGED <<done, buf, woken, pctx, ppc, cancel, quit,
                   widx, jidx, sz, bytes, file, nwrites, qwrites, slots, failed, ret>>

\* W_check without the wait for the slot to be filled
W_check_nowait ==
    /\ wpc = "check"
    /\ wpc' = "cap"
    /\ UNCHANGED <<slotVars, quit, widx, jidx, sz, bytes, file, nwrites, qwrites, slots,
                   failed, ret>>

\* lines 216..217: while (!args[i].done) pthread_cond_wait
W_check ==
    /\ wpc = "check"
    /\ IF done[widx]
       THEN /\ wpc' = "cap"
            /\ UNCHANGED lock
       ELSE /\ wpc' = "wait"
            /\ lock' = [lock EXCEPT ![widx] = "free"]
    /\ UNCHANGED <<done, buf, woken, pctx, ppc, cancel, quit,
                   widx, jidx, sz, bytes, file, nwrites, qwrites, slots, failed, ret>>

\* line 217: pthread_cond_wait returns with the mutex
W_wait ==
    /\ wpc = "wait"
    /\ "writer" \in woken[widx]
    /\ lock[widx] = "free"
    /\ lock' = [lock EXCEPT ![widx] = "writer"]
    /\ woken' = [woken EXCEPT ![widx] = @ \ {"writer"}]
    /\ wpc' = "check"
    /\ UNCHANGED <<done, buf, pctx, ppc, cancel, quit,
                   widx, jidx, sz, bytes, file, nwrites, qwrites, slots, failed, ret>>

\* W_cap without the truncation of the last write
W_cap_uncapped ==
    /\ wpc = "cap"
    /\ sz' = BLOCK_SIZE
    /\ quit' = (quit \/ (max_bytes # 0 /\ bytes + BLOCK_SIZE >= max_bytes))
    /\ wpc' = "fwrite"
    /\ UNCHANGED <<slotVars, widx, jidx, bytes, file, nwrites, qwrites, slots, failed, ret>>

\* lines 222..227: the size of this write, and quit once the cap is reached
W_cap ==
    /\ wpc = "cap"
    /\ LET reached == max_bytes # 0 /\ bytes + BLOCK_SIZE >= max_bytes
       IN  /\ sz' = IF reached THEN max_bytes - bytes ELSE BLOCK_SIZE
           /\ quit' = (quit \/ reached)
    /\ wpc' = "fwrite"
    /\ UNCHANGED <<slotVars, widx, jidx, bytes, file, nwrites, qwrites, slots, failed, ret>>

\* W_fwrite without args[i].done = 0
W_fwrite_keep ==
    /\ wpc = "fwrite"
    /\ \/ /\ sz > 0
          /\ file' = Cat(file, Take(buf[widx], sz))
          /\ UNCHANGED <<quit, failed>>
       \/ /\ \E n \in {0, sz \div 2} :
                file' = Cat(file, Take(buf[widx], n))
          /\ quit' = TRUE
          /\ failed' = TRUE
    /\ bytes' = bytes + sz
    /\ nwrites' = nwrites + 1
    /\ qwrites' = IF quit THEN qwrites + 1 ELSE qwrites
    /\ slots' = Append(slots, widx)
    /\ woken' = cond_signal(widx, "writer")
    /\ wpc' = "unlock"
    /\ UNCHANGED <<done, buf, lock, pctx, ppc, cancel, widx, jidx, sz, ret>>

\* lines 228..234: fwrite(args[i].buf, sz, 1, f) writes all sz bytes, or fewer
\* and fails; bytes += sz either way; args[i].done = 0; pthread_cond_signal
W_fwrite ==
    /\ wpc = "fwrite"
    /\ \/ /\ sz > 0
          /\ file' = Cat(file, Take(buf[widx], sz))
          /\ UNCHANGED <<quit, failed>>
       \/ /\ \E n \in {0, sz \div 2} :
                file' = Cat(file, Take(buf[widx], n))
          /\ quit' = TRUE
          /\ failed' = TRUE
    /\ bytes' = bytes + sz
    /\ nwrites' = nwrites + 1
    /\ qwrites' = IF quit THEN qwrites + 1 ELSE qwrites
    /\ slots' = Append(slots, widx)
    /\ done' = [done EXCEPT ![widx] = FALSE]
    /\ woken' = cond_signal(widx, "writer")
    /\ wpc' = "unlock"
    /\ UNCHANGED <<buf, lock, pctx, ppc, cancel, widx, jidx, sz, ret>>

\* W_unlock going on to the next lock without the test of quit
W_unlock_notest ==
    /\ wpc = "unlock"
    /\ lock' = [lock EXCEPT ![widx] = "free"]
    /\ wpc' = IF nwrites < MaxWrites THEN "lock" ELSE "loop"
    /\ UNCHANGED <<done, buf, woken, pctx, ppc, cancel, quit,
                   widx, jidx, sz, bytes, file, nwrites, qwrites, slots, failed, ret>>

\* line 235: pthread_mutex_unlock
W_unlock ==
    /\ wpc = "unlock"
    /\ lock' = [lock EXCEPT ![widx] = "free"]
    /\ wpc' = "loop"
    /\ UNCHANGED <<done, buf, woken, pctx, ppc, cancel, quit,
                   widx, jidx, sz, bytes, file, nwrites, qwrites, slots, failed, ret>>

\* lines 239..240: for (i = 0; i < workers; ++i) { args[i].done = 0;
W_sd_clear ==
    /\ wpc = "sd_clear"
    /\ IF jidx < workers
       THEN /\ done' = [done EXCEPT ![jidx] = FALSE]
            /\ wpc' = "sd_cancel"
       ELSE /\ wpc' = "return"
            /\ UNCHANGED done
    /\ UNCHANGED <<buf, lock, woken, pctx, ppc, cancel, quit,
                   widx, jidx, sz, bytes, file, nwrites, qwrites, slots, failed, ret>>

\* W_sd_cancel without the pthread_cancel
W_sd_cancel_none ==
    /\ wpc = "sd_cancel"
    /\ wpc' = "sd_join"
    /\ UNCHANGED <<slotVars, quit, widx, jidx, sz, bytes, file, nwrites, qwrites, slots,
                   failed, ret>>

\* line 241: pthread_cancel(args[i].thread)
W_sd_cancel ==
    /\ wpc = "sd_cancel"
    /\ cancel' = [cancel EXCEPT ![jidx] = TRUE]
    /\ wpc' = "sd_join"
    /\ UNCHANGED <<done, buf, lock, woken, pctx, ppc, quit,
                   widx, jidx, sz, bytes, file, nwrites, qwrites, slots, failed, ret>>

\* lines 242..245: pthread_join returns once the thread has ended; then the
\* mutex and the condition variable are destroyed and the buffer freed
W_sd_join ==
    /\ wpc = "sd_join"
    /\ ppc[jidx] \in {"exited", "cancelled"}
    /\ jidx' = jidx + 1
    /\ wpc' = "sd_clear"
    /\ UNCHANGED <<slotVars, quit, widx, sz, bytes, file, nwrites, qwrites, slots, failed, ret>>

\* line 248 and main() lines 399..401: return 0; ... return ret
W_return ==
    /\ wpc = "return"
    /\ ret' = 0
    /\ wpc' = "exit"
    /\ UNCHANGED <<slotVars, quit, widx, jidx, sz, bytes, file, nwrites, qwrites, slots, failed>>

fast ==
    /\ \/ W_loop \/ W_lock \/ W_check \/ W_wait \/ W_cap \/ W_fwrite
       \/ W_unlock \/ W_sd_clear \/ W_sd_cancel \/ W_sd_join
       \/ W_return
    /\ UNCHANGED <<libVars, seekVars, extVars, workers, max_bytes, sigs>>

Producer(s) == s \in Slots /\ producer_thread(s)

PipeNext == signal_handler \/ fast \/ \E s \in Threads : Producer(s)

PipeSpec == PipeInit /\ [][PipeNext]_vars

\* every thread that can run does run: the main thread in fast(), and every
\* producer thread, whose cha_update of line 156 always returns
FairPipeSpec ==
    /\ PipeSpec
    /\ WF_vars(fast)
    /\ \A s \in Threads :
          /\ WF_vars(s \in Slots /\ ppc[s] # "fill" /\ producer_thread(s))
          /\ []<>(s \notin Slots \/ ppc[s] # "fill")

----------------------------------------------------------------------------
(* Option specification: main() reading -t and -r, then fast() creating    *)
(* the producers and every producer_thread setting up its context          *)

\* what may follow a flag: nothing (the flag ends the command line), text
\* that sscanf("%u") does not convert, or a number
TArgs ==
    {<<"absent", 0>>, <<"missing", 0>>, <<"text", 0>>} \cup
    {<<"num", n>> : n \in {0, 1, 2}}
RArgs ==
    {<<"absent", 0>>, <<"missing", 0>>, <<"text", 0>>} \cup
    {<<"num", n>> : n \in {0, 7, 8, 12, 20, 21}}

OptInit ==
    /\ LibIdle
    /\ AddIdle
    /\ BatchIdle
    /\ DrawIdle
    /\ u64 = <<>> /\ dbl = <<>>
    /\ VecIdle
    /\ workers = 8 /\ max_bytes = 0 /\ quit = FALSE /\ sigs = 0
    /\ done = <<>> /\ buf = <<>> /\ lock = <<>> /\ woken = <<>>
    /\ pctx = <<>> /\ ppc = <<>> /\ cancel = <<>>
    /\ wpc = "idle" /\ widx = -1 /\ jidx = 0 /\ sz = 0 /\ bytes = 0 /\ file = <<>>
    /\ nwrites = 0 /\ qwrites = 0 /\ slots = <<>> /\ failed = FALSE /\ ret = -1
    /\ targ \in TArgs /\ rarg \in RArgs
    /\ rounds = 20
    /\ mainpc = "getopt_t"

\* lines 290..297: if (optind >= argc || sscanf(argv[optind++], "%u",
\* &workers) != 1) return 1
main_opt_t ==
    /\ mainpc = "getopt_t"
    /\ IF targ[1] \in {"missing", "text"}
       THEN mainpc' = "return" /\ ret' = 1 /\ UNCHANGED workers
       ELSE /\ mainpc' = "getopt_r"
            /\ workers' = IF targ[1] = "num" THEN targ[2] ELSE workers
            /\ UNCHANGED ret
    /\ UNCHANGED <<libVars, seekVars, addVars, batchVars, drawVars, u64, dbl, vecVars,
                   targ, rarg, rounds, max_bytes, quit, sigs, slotVars,
                   wpc, widx, jidx, sz, bytes, file, nwrites, qwrites, slots, failed>>

\* lines 299..308: if (optind >= argc || sscanf(argv[optind++], "%u",
\* &rounds) != 1) return 1
main_opt_r ==
    /\ mainpc = "getopt_r"
    /\ IF rarg[1] \in {"missing", "text"}
       THEN mainpc' = "return" /\ ret' = 1 /\ UNCHANGED rounds
       ELSE /\ mainpc' = "fast"
            /\ rounds' = IF rarg[1] = "num" THEN rarg[2] ELSE rounds
            /\ UNCHANGED ret
    /\ UNCHANGED <<libVars, seekVars, addVars, batchVars, drawVars, u64, dbl, vecVars,
                   targ, rarg, workers, max_bytes, quit, sigs, slotVars,
                   wpc, widx, jidx, sz, bytes, file, nwrites, qwrites, slots, failed>>

\* line 399: fast(f, workers, max_bytes, key, iv, rounds); lines 195..206:
\* args[i].rounds = rounds, pthread_create; producer_thread lines 147..150:
\* cha_init(&ctx, args->key, default_iv, args->rounds), cha_seek_blocks
main_fast ==
    /\ mainpc = "fast"
    /\ mainpc' = "running"
    /\ pctx' = [s \in 0 .. workers - 1 |->
                  cha_seek_blocks(cha_init(Key, default_iv, rounds),
                                  (s * BLOCK_SIZE) \div 64)]
    /\ UNCHANGED <<libVars, seekVars, addVars, batchVars, drawVars, u64, dbl, vecVars,
                   targ, rarg, rounds, workers, max_bytes, quit, sigs,
                   done, buf, lock, woken, ppc, cancel, writerVars>>

OptNext == main_opt_t \/ main_opt_r \/ main_fast

OptSpec == OptInit /\ [][OptNext]_vars

----------------------------------------------------------------------------
(* Claims on the command line tool                                         *)

\* the context producer s holds before its fill number j (from 0), computed
\* from its own calls alone: cha_init, cha_seek_blocks(s * BLOCK_SIZE / 64),
\* then cha_update(BLOCK_SIZE); cha_seek_blocks(ivstep) for every fill
RECURSIVE ProducerCtx(_, _)
ProducerCtx(s, j) ==
    IF j = 0
    THEN cha_seek_blocks(cha_init(Key, default_iv, 20), (s * BLOCK_SIZE) \div 64)
    ELSE cha_seek_blocks(cha_update(impl, ProducerCtx(s, j - 1), BLOCK_SIZE).ctx,
                         ivstep)

\* the buffers of the first n writes when the writes go round the slots
RECURSIVE RoundRobinStream(_)
RoundRobinStream(n) ==
    IF n = 0 THEN <<>>
    ELSE Cat(RoundRobinStream(n - 1),
             cha_update(impl, ProducerCtx((n - 1) % workers, (n - 1) \div workers),
                        BLOCK_SIZE).out)

WriterInLoop == wpc \in {"loop", "lock", "check", "wait", "cap", "fwrite", "unlock"}

\* C2: the bytes the writer has emitted are the single-threaded keystream of
\* the same length from the same key, IV and initial counter.
C2_OutputIsKeystream ==
    file = Keystream(Key, default_iv, 0, Size(file))

\* C3: the n-th write of fast() (n from 0) takes its data from slot n mod W.
C3_RoundRobin ==
    \A n \in 1 .. Len(slots) : slots[n] = (n - 1) % workers

C3_Wrapped ==
    /\ workers = 2
    /\ slots = <<0, 1, 0>>

\* C4: until quit is set, a producer writes into its buffer only with the ready
\* flag false and the slot mutex held, and the writer reads a buffer only with
\* the ready flag true and the slot mutex held.
C4_ExclusiveBuffer ==
    ~quit =>
        \A s \in Slots :
            /\ ppc[s] = "fill" => (~done[s] /\ lock[s] = "producer")
            /\ (wpc = "fwrite" /\ widx = s) => (done[s] /\ lock[s] = "writer")

C4_HandOff ==
    /\ ~quit
    /\ wpc = "fwrite"
    /\ nwrites >= 1
    /\ ppc[widx] = "lock"
    /\ \E s \in Slots : ppc[s] = "fill"

\* C5: with a nonzero max_bytes the byte total never exceeds max_bytes, every
\* write has a size in 1..BLOCK_SIZE, no write follows the one that reaches
\* max_bytes, and a run that ends with no failed write and no signal has
\* written exactly max_bytes.
C5_ByteCap ==
    max_bytes # 0 =>
        /\ bytes <= max_bytes
        /\ wpc = "fwrite" => sz \in 1 .. BLOCK_SIZE
        /\ bytes = max_bytes => (quit /\ wpc \notin {"lock", "check", "wait", "cap", "fwrite"})
        /\ (wpc = "exit" /\ ~failed /\ sigs = 0) =>
               (bytes = max_bytes /\ Size(file) = max_bytes)

C5_TruncatedLastWrite ==
    /\ max_bytes = BLOCK_SIZE + 7
    /\ wpc = "exit"
    /\ ~failed /\ sigs = 0
    /\ nwrites = 2 /\ sz = 7

\* C6: once quit is true the writer eventually leaves its write loop.
C6_WriterLeavesLoop ==
    quit ~> ~WriterInLoop

\* C7: once the writer has left its loop every producer thread ends and is
\* joined, and fast() returns.
C7_ShutdownCompletes ==
    (wpc = "sd_clear") ~>
        (wpc = "exit" /\ \A s \in Slots : ppc[s] \in {"exited", "cancelled"})

C7_JoinedAfterCancel ==
    /\ wpc = "exit"
    /\ \E s \in Slots : ppc[s] = "cancelled"
    /\ \E s \in Slots : ppc[s] = "exited"

\* C8: when a write of fast() has failed the exit status is nonzero.
C8_FailureExitsNonzero ==
    (wpc = "exit" /\ failed) => ret # 0

\* C9: the bytes written are a function of the key, the IV, the rounds, W and
\* max_bytes alone: under every interleaving the output is a prefix of one
\* sequence, and it is the first max_bytes bytes of it when the run ends with
\* no failed write and no signal.
C9_Deterministic ==
    /\ file = Take(RoundRobinStream(nwrites), Size(file))
    /\ (max_bytes # 0 /\ wpc = "exit" /\ ~failed /\ sigs = 0) =>
           file = Take(RoundRobinStream(nwrites), max_bytes)

C9_TwoProducersDrained ==
    /\ workers = 2
    /\ wpc = "exit"
    /\ ~failed /\ sigs = 0
    /\ max_bytes = BLOCK_SIZE + 7
    /\ Size(file) = max_bytes

----------------------------------------------------------------------------
(* Claims on seeking and on the counter                                    *)

\* C11: cha_seek_blocks(a); cha_seek_blocks(b) leaves the counter, and the
\* bytes of the next cha_update, that cha_seek_blocks(a + b) leaves.
C11_SeekAdditive ==
    /\ (step1 = "ab" /\ step2 = "sought") =>
           (ctx.state[12] = ctx2.state[12] /\ ctx.state[13] = ctx2.state[13])
    /\ (step1 = "read" /\ step2 = "read") => (out = out2 /\ ctx = ctx2)

C11_CarriedAndRead ==
    /\ step1 = "read" /\ step2 = "read"
    /\ iv[1] = -4 /\ iv[2] = -1
    /\ da = 8 /\ db = -9
    /\ outlen = 513

\* the bytes a cha_update(c, _, L) supplies from the carry-over c holds
CarryPrefix(c, L) ==
    IF c.offset = 0 \/ c.end - c.offset < 0 THEN 0
    ELSE IF c.end - c.offset > L THEN L ELSE c.end - c.offset

\* the blocks of the batches generated to cover R bytes: whole batches written
\* to the output, and one stored batch of 8 blocks for a remainder
BlocksGenerated(R) ==
    LET G == IF impl = "avx2" THEN 8 ELSE 4
    IN  G * (R \div (CHA_BLOCK_SIZE * G))
          + (IF R % (CHA_BLOCK_SIZE * G) # 0 THEN BATCH_BLOCKS ELSE 0)

----------------------------------------------------------------------------
(* Claims on the batch block functions                                     *)

\* the 64-bit counter of a state[16]
Counter(st) == <<st[12], st[13]>>

\* C13: on return from _cha_8block the 64-bit counter is its entry value plus
\* 8 * floor(size / 512) modulo 2^64.
C13_Counter8 ==
    bfn = "_cha_8block" =>
        Counter(bres.state) =
            Add64(bstate[12], bstate[13], 8 * (bsize \div 512))

\* C14: on return from _cha_4block, SSSE3 or Neon, the 64-bit counter is its
\* entry value plus 4 * floor(size / 256) modulo 2^64.
C14_Counter4 ==
    bfn \in {"_cha_4block", "_cha_4block_neon"} =>
        Counter(bres.state) =
            Add64(bstate[12], bstate[13], 4 * (bsize \div 256))

C14_LowWordOverflowed ==
    /\ bfn = "_cha_4block"
    /\ bstate[12] = -3 /\ bstate[13] = 7
    /\ bsize = 1023
    /\ Counter(bres.state) = <<9, 8>>

\* C15: over 256n bytes the 4-block function, and over 512n bytes the 8-block
\* function, stores the bytes of 4n and of 8n successive scalar blocks.
C15_BatchEqualsScalar ==
    /\ (bfn = "_cha_8block" /\ bsize > 0 /\ bsize % 512 = 0) =>
           bres.out = ScalarBlocks(bstate, bsize \div 64)
    /\ (bfn \in {"_cha_4block", "_cha_4block_neon"} /\ bsize > 0 /\ bsize % 256 = 0) =>
           bres.out = ScalarBlocks(bstate, bsize \div 64)

----------------------------------------------------------------------------
(* Claims on the boundary cases of cha_update                              *)

\* C19: a cha_update of length 0 changes nothing: the counter, the carry-over
\* buffer and its offsets stay as they were and no byte is stored in the
\* output buffer.
C19_ZeroLengthNoOp ==
    [][(calls' = calls + 1 /\ outlen' = 0) => (ctx' = ctx /\ out' = <<>>)]_vars

----------------------------------------------------------------------------
(* Claims on the scalar fallback                                           *)

\* C16: for the same key, IV, rounds and cha_update lengths, cha_update
\* delivers the same bytes with the scalar fallback as with the 4-block or
\* the 8-block variant.
C16_FallbackSameStream ==
    (calls > 0 /\ ~undef) => out = out2

----------------------------------------------------------------------------
(* Claims on the bit-generator draws                                       *)

\* C17: after any sequence of cha_update, cha_seek_blocks and draws the
\* carry-over offsets satisfy 0 <= offset <= end <= 512, and every draw reads
\* within the first end bytes of the carry-over buffer.
C17_OffsetsInRange ==
    /\ 0 <= ctx.offset /\ ctx.offset <= ctx.end /\ ctx.end <= BATCH_SIZE
    /\ rdoff # -1 => (0 <= rdoff /\ rdoff + 8 <= rdend)

\* C18: cha_update, cha_seek_blocks and the draws leave state words 0..3
\* (constants), 4..11 (key) and 14..15 (nonce) as cha_init set them; only the
\* counter words 12..13 change, and the counter wraps modulo 2^64 without a
\* carry into word 14.
C18_OnlyCounterChanges ==
    ~undef =>
        /\ \A i \in (0 .. 11) \cup {14, 15} :
               ctx.state[i] = cha_init(Key, iv, 20).state[i]
        /\ DOMAIN ctx.state = 0 .. 15

C18_CounterWrapped ==
    /\ ~undef
    /\ iv[1] = 5 /\ iv[2] = -1
    /\ last = "seek" /\ calls = 2
    /\ ctx.state[12] = 3 /\ ctx.state[13] = 0
    /\ ctx.state[14] = iv[3]

\* C20: next_uint32 advances the keystream by four bytes and returns them,
\* least significant byte first: a draw made at stream position pos returns
\* keystream bytes pos .. pos + 3, so two successive draws return the two
\* halves of eight consecutive keystream bytes.
C20_Uint32FourBytes ==
    (last = "uint32" /\ ~undef /\ pos >= 0) =>
        drawn = Keystream(Key, iv, pos, 4)

\* C21: on a context used only through next_uint64 the k-th draw returns
\* keystream bytes 8k .. 8k + 7, least significant byte first, and the batch
\* function has run once per 64 draws: after n draws the counter stands
\* 8 * ceil(n / 64) blocks after its initial value.
C21_SequentialDraws ==
    last = "uint64" =>
        /\ ~undef
        /\ drawn = Keystream(Key, iv, pos, 8)
        /\ Counter(ctx.state) =
               Add64(iv[1], iv[2], BATCH_BLOCKS * ((calls + 63) \div 64))

\* C22: next_double returns a value in [0, 1): for the drawn value u it
\* returns (u >> 11) * 2^-53, whose numerator is below 2^53.
C22_DoubleInUnitInterval ==
    last = "double" /\ dbl # <<>> =>
        /\ dbl[1] = 0
        /\ dbl = <<0, u64[1], u64[2], u64[3], 2048 * (u64[4] \div 2048)>>

----------------------------------------------------------------------------
(* Claims on cha_wipe                                                      *)

\* C23: after cha_wipe every byte of the context is zero: the 16 state
\* words, the 512 bytes of the carry-over buffer, the offsets and rounds; no
\* key word is left in the state.
C23_WipedIsZero ==
    last = "wipe" =>
        /\ \A w \in 0 .. 15 : ctx.state[w] = 0
        /\ Size(ctx.unconsumed) = BATCH_SIZE
        /\ \A r \in 1 .. Len(ctx.unconsumed) : ctx.unconsumed[r][3] = -1
        /\ ctx.offset = 0 /\ ctx.end = 0 /\ ctx.rounds = 0
        /\ \A i \in 1 .. 8 : ctx.state[i + 3] # Key[i]

C23_WipedWithCarryOver ==
    last = "wipe" /\ calls = 2 /\ outlen = 513 /\ pos = 1

----------------------------------------------------------------------------
(* Claims on the options                                                   *)

\* C24: the rounds of every context the tool creates is 8, 12 or 20: a -r
\* argument outside this set makes main() return nonzero before any context
\* is set up.
C24_RoundsValidated ==
    /\ \A s \in DOMAIN pctx : pctx[s].rounds \in {8, 12, 20}
    /\ (rarg[1] = "num" /\ rarg[2] \notin {8, 12, 20} /\ mainpc \in {"fast", "running", "return"})
           => (mainpc = "return" /\ ret # 0)

----------------------------------------------------------------------------
(* Claims on the test vectors                                              *)

\* the keystream block of RFC 7539 section 2.3.2 (key 00 01 .. 1f, nonce
\* 00 00 00 09 00 00 00 4a 00 00 00 00, block count 1)
Section232Block ==
    <<16, 241, 231, 228, 209, 59, 89, 21, 80, 15, 221, 31, 163, 32, 113, 196,
    199, 209, 244, 199, 51, 192, 104, 3, 4, 34, 170, 154, 195, 212, 108, 78,
    210, 130, 100, 70, 7, 159, 170, 9, 20, 194, 215, 5, 217, 139, 2, 162,
    181, 18, 156, 209, 222, 22, 78, 185, 203, 208, 131, 232, 162, 80, 60, 78>>

\* the keystream block of RFC 7539 appendix A.1, test vector 1 (key, nonce
\* and block counter all zero)
ZeroVectorBlock ==
    <<118, 184, 224, 173, 160, 241, 61, 144, 64, 93, 106, 229, 83, 134, 189, 40,
    189, 210, 25, 184, 160, 141, 237, 26, 168, 54, 239, 204, 139, 119, 13, 199,
    218, 65, 89, 124, 81, 87, 72, 141, 119, 36, 224, 63, 184, 216, 74, 55,
    106, 67, 184, 244, 21, 24, 161, 28, 195, 135, 182, 105, 178, 238, 101, 134>>

\* C25 as stated: with a key of 32 zero bytes, a zero IV and 20 rounds the
\* first 64 bytes delivered are the keystream block of RFC 7539 section
\* 2.3.2 and begin 76 b8 e0 ad a0 f1 3d 90.
C25_ZeroVectorIsSection232 ==
    (calls = 1 /\ vkey = ZeroKey /\ iv = <<0, 0, 0, 0>>) =>
        /\ SubSeq(vout, 1, 64) = Section232Block
        /\ SubSeq(vout, 1, 8) = <<118, 184, 224, 173, 160, 241, 61, 144>>

\* C25 as amended: with a key of 32 zero bytes, a zero IV and 20 rounds the
\* first 64 bytes delivered are the block of RFC 7539 appendix A.1 test
\* vector 1, beginning 76 b8 e0 ad a0 f1 3d 90; the block of section 2.3.2
\* is what is delivered for the key 00 01 .. 1f and the IV 01 00 00 00
\* 00 00 00 09 00 00 00 4a 00 00 00 00.
C25_TestVectors ==
    /\ (calls = 1 /\ vkey = ZeroKey /\ iv = <<0, 0, 0, 0>>) =>
           SubSeq(vout, 1, 64) = ZeroVectorBlock
    /\ (calls = 1 /\ vkey = CountingKey /\ iv = <<1, 150994944, 1241513984, 0>>) =>
           SubSeq(vout, 1, 64) = Section232Block

C25_ZeroVectorDelivered ==
    /\ calls = 1 /\ vkey = ZeroKey /\ iv = <<0, 0, 0, 0>> /\ impl = "avx2"
    /\ outlen = 128 /\ Len(vout) = 128
    /\ vout[1] = 118 /\ vout[64] = 134

----------------------------------------------------------------------------
(* Claims on the counter partitioning of the producers                     *)

\* C26: a producer that has not filled its buffer yet holds the context
\* sought forward by s * (BLOCK_SIZE / 64) blocks from the initial one, and
\* the step that fills slot s leaves the context of the fill sought forward
\* by workers * (BLOCK_SIZE / 64) blocks.
C26_CounterPartitioning ==
    [][\A s \in Slots :
         /\ (buf[s] = <<>> /\ ppc[s] # "exited") =>
                pctx[s] = cha_seek_blocks(cha_init(Key, default_iv, 20),
                                          s * (BLOCK_SIZE \div 64))
         /\ (ppc[s] = "fill" /\ ppc'[s] = "unlock") =>
                pctx'[s] = cha_seek_blocks(
                               cha_update(impl, pctx[s], BLOCK_SIZE).ctx,
                               workers * (BLOCK_SIZE \div 64))]_vars

----------------------------------------------------------------------------
(* Claims on the hand-off of the buffers                                   *)

\* the step of producer s that fills its buffer, and the writer's fwrite of
\* slot s
FillStep(s) == ppc[s] = "fill" /\ ppc'[s] = "unlock"
WriteStep(s) == wpc = "fwrite" /\ wpc' = "unlock" /\ widx = s

\* C27: while quit is false, a slot that has been neither filled nor written
\* is not marked done; a fill of slot s happens only when the slot is drained
\* and marks it filled; a write of slot s happens only when the slot is
\* filled, writes a prefix of the buffer of that fill, leaves the buffer as it
\* is and marks the slot drained; and nothing else changes the mark or the
\* buffer. Fills and writes of a slot therefore alternate, starting with a
\* fill.
C27_FillsAndDrainsAlternate ==
    [][~quit =>
         \A s \in Slots :
           /\ (buf[s] = <<>> /\ \A i \in 1 .. Len(slots) : slots[i] # s) => ~done[s]
           /\ FillStep(s) => (~done[s] /\ done'[s] /\ buf'[s] # buf[s])
           /\ WriteStep(s) =>
                 /\ done[s] /\ ~done'[s] /\ buf'[s] = buf[s]
                 /\ \E n \in 0 .. Size(buf[s]) :
                        file' = Cat(file, Take(buf[s], n))
           /\ done'[s] # done[s] => (FillStep(s) \/ WriteStep(s))
           /\ buf'[s] # buf[s] => FillStep(s)]_vars

\* slot 0 of a single producer has been filled, written, filled, written and
\* filled again, with quit still false
C27_ThirdFill ==
    /\ workers = 1 /\ ~quit /\ ~failed
    /\ slots = <<0, 0>>
    /\ done[0] /\ ppc[0] = "unlock"
    /\ Size(file) = 2 * BLOCK_SIZE

----------------------------------------------------------------------------
(* Claims on cha_generate_batch                                            *)

\* the bytes one batch of the dispatched function takes
BatchUnit == IF impl = "avx2" THEN BATCH_SIZE
             ELSE IF impl = "ssse3" THEN 4 * CHA_BLOCK_SIZE
             ELSE CHA_BLOCK_SIZE

\* C28: for each dispatch outcome, the bytes cha_generate_batch stores from
\* out[0] on are as many as the count it returns, a whole number of batches
\* and at most outsize, so that nothing is stored at or after out[outsize].
C28_BatchWithinBuffer ==
    bfn = "cha_generate_batch" =>
        /\ Size(bres.out) = bres.n
        /\ bres.n % BatchUnit = 0
        /\ bres.n <= bsize

----------------------------------------------------------------------------
(* Claims on the carry-over                                                *)

\* C29: a cha_update of len bytes on a context whose carry-over holds unread
\* bytes (offset < end) and at least len of them leaves the counter, the
\* stored batch and every other field as they were and advances offset by
\* exactly len; the bytes delivered are the next len stored ones.
C29_ServedFromCarryOver ==
    [][(calls' = calls + 1 /\ ctx.offset < ctx.end
            /\ outlen' <= ctx.end - ctx.offset) =>
           /\ ctx' = [ctx EXCEPT !.offset = ctx.offset + outlen']
           /\ out' = Slice(ctx.unconsumed, ctx.offset, outlen')]_vars

\* one byte was read, leaving 511 in the carry-over, and the next call took
\* 63 of them: the counter is still the one after the first stored batch
C29_SecondCallFromCarryOver ==
    /\ calls = 2 /\ pos = 1 /\ outlen = 63
    /\ iv = <<0, 0, 1684955474, 1802073425>>
    /\ ctx.offset = 64 /\ ctx.end = BATCH_SIZE
    /\ Counter(ctx.state) = <<8, 0>>

----------------------------------------------------------------------------
(* Claims on the progress of the pipeline                                  *)

\* C30: under fair scheduling, unless quit becomes true (a signal, a failed
\* write, the byte cap reached) the n-th write eventually happens for every
\* n up to the bound, and every slot that is drained is eventually refilled
\* by its producer.
C30_Progress ==
    /\ <>(quit \/ nwrites = MaxWrites)
    /\ \A s \in Threads : (s \in Slots /\ ~done[s]) ~> (quit \/ (s \in Slots /\ done[s]))

\* both producers have refilled their buffers after all the writes of the
\* run, with quit still false
C30_AllWritesAndRefills ==
    /\ workers = 2 /\ max_bytes = 0
    /\ ~quit /\ ~failed /\ sigs = 0
    /\ nwrites = MaxWrites
    /\ done[0] /\ done[1]
    /\ ppc[0] = "wait" /\ ppc[1] = "wait"

----------------------------------------------------------------------------
(* Claims on the writes after quit                                         *)

\* C31: the writer makes at most one fwrite call after quit has become true,
\* whatever made it true, and none after an fwrite call has failed.
C31_AtMostOneWriteAfterQuit ==
    [][/\ qwrites' <= 1
       /\ failed => nwrites' = nwrites]_vars

\* the signal came while the writer was inside its loop: one more buffer was
\* written after quit, and the writer has left the loop
C31_OneWriteAfterSignal ==
    /\ sigs = 1 /\ ~failed /\ max_bytes = 0
    /\ qwrites = 1 /\ nwrites = 2
    /\ wpc = "sd_clear"

----------------------------------------------------------------------------
(* Claims on the shutdown of the pipeline                                  *)

\* the steps in which producer s, and the writer, read or write args[s].done
ProducerDoneAccess(s) ==
    \/ ppc[s] = "check" /\ ppc'[s] # "check"
    \/ FillStep(s)
WriterDoneAccess(s) ==
    \/ wpc = "check" /\ wpc' # "check" /\ widx = s
    \/ WriteStep(s)
    \/ wpc = "sd_clear" /\ wpc' = "sd_cancel" /\ jidx = s

\* C32: every step in which the producer of a slot or the writer reads or
\* writes the slot's done flag, the clearing of the flag during shutdown
\* included, is taken by a thread that holds the slot's mutex.
C32_DoneUnderMutex ==
    [][\A s \in Slots :
         /\ ProducerDoneAccess(s) => lock[s] = "producer"
         /\ WriterDoneAccess(s) => lock[s] = "writer"]_vars

----------------------------------------------------------------------------
(* Claims on the keystream cursor                                          *)

\* C33: after cha_update calls that delivered p bytes, p a multiple of 64,
\* cha_seek_blocks(d) makes the next byte delivered the keystream byte at
\* offset p + 64 * d; with d = 0 it is the byte at offset p.
C33_SeekMovesCursor ==
    step1 = "read" => out = Keystream(Key, iv, pos + CHA_BLOCK_SIZE * da, 1)

----------------------------------------------------------------------------
(* Claims on the byte total                                                *)

\* C34: the byte total the writer keeps is the number of bytes written to the
\* output: an fwrite call that fails leaves it as it was, and at the end of
\* fast() it is the size of the output when no call has failed.
C34_BytesAreBytesWritten ==
    [][/\ (WriterInLoop /\ failed' /\ ~failed) => bytes' = bytes
       /\ (wpc' = "exit" /\ ~failed') => bytes' = Size(file')]_vars

\* C35: a producer thread that has terminated, by returning from its loop or
\* by the pthread_cancel of the shutdown taking effect in its
\* pthread_cond_wait, has wiped its streaming context: the context it leaves
\* is all zero.
C35_ProducerWipesContext ==
    \A s \in Slots :
        ppc[s] \in {"exited", "cancelled"} => pctx[s] = cha_wipe(pctx[s])

\* C36: when the shutdown loop has joined a slot's producer and destroys the
\* slot's mutex and condition variable, the mutex is not held and no thread
\* waits on the condition variable.
C36_DestroyedUnheld ==
    [][(wpc = "sd_join" /\ wpc' = "sd_clear") =>
           /\ lock[jidx] = "free"
           /\ ppc[jidx] # "wait"
           /\ ~(wpc = "wait" /\ widx = jidx)]_vars

\* C37: fast() is only entered with workers >= 1: a -t argument of 0 makes
\* main() return nonzero before fast() runs.
C37_WorkersAtLeastOne ==
    /\ mainpc \in {"fast", "running"} => workers >= 1
    /\ (targ = <<"num", 0>> /\ mainpc # "getopt_t") => (mainpc = "return" /\ ret # 0)

====
